---- MODULE Spec2Model ----
(***************************************************************************)
(* A model of the AMPL compiler's generic hash table (Compiler/hashtable.c) *)
(* and of the scoped symbol table built on it (Compiler/symboltable.c).     *)
(*                                                                         *)
(* Pointers.  NULL is the empty function <<>>.  A key is a C string, held   *)
(* as the non-empty sequence of its character codes.  A value is the       *)
(* IDPropt record a value pointer refers to.  A hash table is the record    *)
(* of struct hashtab; its bucket array `table` is a function from the      *)
(* indices of the non-NULL buckets to their chains (sequences of entries,  *)
(* head first), every index outside its domain being a NULL bucket.        *)
(***************************************************************************)
EXTENDS Integers, Sequences, FiniteSets, TLC

NULL == <<>>

\* ---------------------------------------------------------------- bounds

\* Failed allocations (malloc returning NULL) injected in one run.
MaxFail == 1

\* ------------------------------------------------------ program constants

INITIAL_DELTA_INDEX == 4

MAX_IDX == 32

\* delta[i] of the source is delta[i + 1] here (sequences start at 1).
delta == <<0, 0, 1, 1, 3, 1, 3, 1, 5, 3, 3, 9, 3, 1, 3, 19,
           15, 1, 5, 1, 3, 9, 3, 15, 3, 39, 5, 39, 57, 3, 35, 1>>

\* The result of ht_insert for a key that is already there.  The header that
\* sets it is not among the sources; it is some value other than 0 and 1.
HASH_TABLE_KEY_VALUE_PAIR_EXISTS == -1

TYPE_NONE == 0
TYPE_ARRAY == 1
TYPE_BOOLEAN == 2
TYPE_INTEGER == 4
TYPE_CALLABLE == 8

\* INT_MAX of a 32-bit int, which is also the largest integer TLC computes
\* with: an int is held as its signed value, and wrap-around is written out.
INT_MAX == (2 ^ 30 - 1) + 2 ^ 30

\* ------------------------------------------------------------ value types

\* Bit `flag` (a power of two) of the flag word `type`.
HasFlag(type, flag) == (type \div flag) % 2 = 1

\* The bodies of these two macros are empty in valtypes.h; they are taken from
\* their use: a callable carries the TYPE_CALLABLE flag, a variable does not.
IS_CALLABLE_TYPE(type) == HasFlag(type, TYPE_CALLABLE)

IS_VARIABLE(type) == ~IS_CALLABLE_TYPE(type)

\* idpropt(type, offset, nparams, params) of amplc.c.
idpropt(type, offset, nparams, params) ==
    [type |-> type, offset |-> offset, nparams |-> nparams, params |-> params]

\* ------------------------------------------------- hash and compare

\* hash << 5 on a 32-bit int: bits 0..26 move up, bit 26 becomes the sign.
ShiftLeft5(h) ==
    LET low == h % (2 ^ 27)
    IN IF low >= 2 ^ 26
       THEN (((low - 2 ^ 26) * 32) - 2 ^ 30) - 2 ^ 30
       ELSE low * 32

\* hash >> 27, an arithmetic shift: -16..15.
ShiftRight27(h) == h \div (2 ^ 27)

\* a | b where a has bits 0..4 clear and b is in -16..15: a non-negative b
\* fills bits 0..3, a negative b has every bit above bit 4 set.
BitOr(a, b) == IF b >= 0 THEN a + b ELSE b

\* a + b on 32-bit ints with b >= 0, wrapping around past INT_MAX.
WrapAdd(a, b) ==
    IF a > INT_MAX - b
    THEN ((((a - 2 ^ 30) - 2 ^ 30) + b) - 2 ^ 30) - 2 ^ 30
    ELSE a + b

\* (a + b) % m for a, b in 0..m-1, without leaving the 32-bit range.
AddMod(a, b, m) == IF a >= m - b THEN a - (m - b) ELSE a + b

\* (unsigned int)hash % size: a negative int converts to hash + 2^32.
UnsignedMod(hash, size) ==
    IF hash >= 0 THEN hash % size
    ELSE LET q == (2 ^ 30) % size
             h == AddMod(q, q, size)
         IN AddMod(hash % size, AddMod(h, h, size), size)

\* The loop of shift_hash: hash = (hash << 5 | hash >> 27); hash += id[i].
RECURSIVE HashLoop(_, _, _)
HashLoop(id, i, hash) ==
    IF i > Len(id) THEN hash
    ELSE HashLoop(id, i + 1,
                  WrapAdd(BitOr(ShiftLeft5(hash), ShiftRight27(hash)), id[i]))

\* shift_hash (the branch compiled without DEBUG_SYMBOL_TABLE).
shift_hash(key, size) == UnsignedMod(HashLoop(key, 1, 0), size)

\* strcmp: negative, zero or positive.
RECURSIVE key_strcmp(_, _)
key_strcmp(val1, val2) ==
    IF val1 = <<>> /\ val2 = <<>> THEN 0
    ELSE IF val1 = <<>> THEN -1
    ELSE IF val2 = <<>> THEN 1
    ELSE IF Head(val1) # Head(val2) THEN Head(val1) - Head(val2)
    ELSE key_strcmp(Tail(val1), Tail(val2))

\* ---------------------------------------------------------- hash table

\* ht->table[k]: the chain of bucket k, <<>> for a NULL bucket.
Bucket(tab, k) == IF k \in DOMAIN tab THEN tab[k] ELSE <<>>

\* p->next_ptr = table[k]; table[k] = p: the entry becomes the head of chain k.
PushFront(tab, k, entry) ==
    IF k \in DOMAIN tab
    THEN [tab EXCEPT ![k] = <<entry>> \o @]
    ELSE (k :> <<entry>>) @@ tab

\* ht_init: okHt and okTable are the outcomes of its two malloc calls.
ht_init(loadfactor, okHt, okTable) ==
    IF ~okHt THEN NULL
    ELSE IF ~okTable THEN NULL
    ELSE [table |-> <<>>,
          size |-> (2 ^ INITIAL_DELTA_INDEX) - delta[INITIAL_DELTA_INDEX + 1],
          num_entries |-> 0,
          max_loadfactor |-> loadfactor,
          idx |-> INITIAL_DELTA_INDEX]

\* The for loop of ht_search over one chain.
RECURSIVE SearchChain(_, _)
SearchChain(chain, key) ==
    IF chain = <<>> THEN NULL
    ELSE IF key_strcmp(key, Head(chain).key) = 0 THEN Head(chain).value
    ELSE SearchChain(Tail(chain), key)

ht_search(ht, key) ==
    IF ht = NULL \/ key = NULL THEN NULL
    ELSE SearchChain(Bucket(ht.table, shift_hash(key, ht.size)), key)

\* The calls of ht->cmp the loop of ht_search makes on one chain: one for each
\* entry up to and including the first whose key compares equal.
RECURSIVE CmpCalls(_, _)
CmpCalls(chain, key) ==
    IF chain = <<>> THEN 0
    ELSE IF key_strcmp(key, Head(chain).key) = 0 THEN 1
    ELSE 1 + CmpCalls(Tail(chain), key)

\* ht_search testing the table pointer only: a NULL key goes on to be hashed.
ht_search_calls_table_test_only(ht, key) ==
    IF ht = NULL
    THEN [ret |-> NULL, hash_calls |-> 0, cmp_calls |-> 0]
    ELSE LET chain == Bucket(ht.table, shift_hash(key, ht.size))
         IN [ret |-> SearchChain(chain, key),
             hash_calls |-> 1,
             cmp_calls |-> CmpCalls(chain, key)]

\* ht_search with the calls it makes: the value returned, and how often
\* ht->hash and ht->cmp are called.
ht_search_calls(ht, key) ==
    IF ht = NULL \/ key = NULL
    THEN [ret |-> NULL, hash_calls |-> 0, cmp_calls |-> 0]
    ELSE LET chain == Bucket(ht.table, shift_hash(key, ht.size))
         IN [ret |-> SearchChain(chain, key),
             hash_calls |-> 1,
             cmp_calls |-> CmpCalls(chain, key)]

\* getsize: advances ht->idx and returns the size for the new index.
getsize(ht) ==
    [ht |-> [ht EXCEPT !.idx = @ + 1],
     size |-> (2 ^ (ht.idx + 1)) - delta[ht.idx + 2]]

\* The entries in the order rehash visits them: buckets by rising index, each
\* chain from its head.
RECURSIVE VisitOrder(_, _)
VisitOrder(tab, todo) ==
    IF todo = {} THEN <<>>
    ELSE LET i == CHOOSE x \in todo : \A y \in todo : x <= y
         IN tab[i] \o VisitOrder(tab, todo \ {i})

\* The relinking loop of rehash: each entry in turn becomes the head of its
\* chain in new_table.
RECURSIVE Relink(_, _, _)
Relink(entries, new_table, size) ==
    IF entries = <<>> THEN new_table
    ELSE Relink(Tail(entries),
                PushFront(new_table, shift_hash(Head(entries).key, size),
                          Head(entries)),
                size)

\* rehash: okTable is the outcome of the malloc of the new bucket array.
rehash(ht, okTable) ==
    LET g == getsize(ht)
    IN IF ~okTable THEN g.ht
       ELSE [g.ht EXCEPT
               !.table = Relink(VisitOrder(ht.table, DOMAIN ht.table), <<>>, g.size),
               !.size = g.size]

\* ht->max_loadfactor < (float)ht->num_entries / ht->size, the load factor
\* being the fraction <<numerator, denominator>>.
LoadExceeded(ht) ==
    ht.max_loadfactor[1] * ht.size < ht.num_entries * ht.max_loadfactor[2]

\* ht_insert without its lookup for the key: a key that is there is inserted
\* again.
ht_insert_without_lookup(ht, key, value, okTable, okEntry) ==
    LET counted == [ht EXCEPT !.num_entries = @ + 1]
        grown == IF LoadExceeded(counted) /\ counted.idx < MAX_IDX
                 THEN rehash(counted, okTable)
                 ELSE counted
        k == shift_hash(key, grown.size)
    IN IF ~okEntry
       THEN [ht |-> grown, ret |-> 1]
       ELSE [ht |-> [grown EXCEPT
                       !.table = PushFront(@, k, [key |-> key, value |-> value])],
             ret |-> 0]

\* ht_insert: okTable is the outcome of the malloc in rehash (if it runs),
\* okEntry that of the malloc of the entry.  Yields the table after the call
\* and the value returned.
ht_insert(ht, key, value, okTable, okEntry) ==
    IF ht_search(ht, key) # NULL
    THEN [ht |-> ht, ret |-> HASH_TABLE_KEY_VALUE_PAIR_EXISTS]
    ELSE LET counted == [ht EXCEPT !.num_entries = @ + 1]
             grown == IF LoadExceeded(counted) /\ counted.idx < MAX_IDX
                      THEN rehash(counted, okTable)
                      ELSE counted
             k == shift_hash(key, grown.size)
         IN IF ~okEntry
            THEN [ht |-> grown, ret |-> 1]
            ELSE [ht |-> [grown EXCEPT
                            !.table = PushFront(@, k, [key |-> key, value |-> value])],
                  ret |-> 0]

\* Whether this ht_insert call reaches the malloc in rehash.
InsertRehashes(ht, key) ==
    /\ ht_search(ht, key) = NULL
    /\ LoadExceeded([ht EXCEPT !.num_entries = @ + 1])
    /\ ht.idx < MAX_IDX

\* Whether this ht_insert call reaches the malloc of the entry.
InsertAllocates(ht, key) == ht_search(ht, key) = NULL

\* ht_free on the heap of tables: the pointer p is <<address>> or NULL.  The
\* table's entries, their keys and values, its bucket array and the table go.
FREED == [freed |-> TRUE]

ht_free(hp, p, freekey, freeval) ==
    IF p = NULL \/ ~freekey \/ ~freeval
    THEN [heap |-> hp, ret |-> "EXIT_FAILURE"]
    ELSE [heap |-> [hp EXCEPT ![p[1]] = FREED], ret |-> "EXIT_SUCCESS"]

\* --------------------------------------------------------- symbol table

\* The load factor of both ht_init calls of symboltable.c: 0.75f.
SymTabLoadFactor == <<3, 4>>

\* *p for a table pointer p.
Deref(hp, p) == IF p = NULL THEN NULL ELSE hp[p[1]]

\* The static variables of symboltable.c, with the heap of tables, as one
\* record st = [heap, table, saved_table, curr_offset].

\* find_name without the test for a callable: any entry of the saved table
\* counts.
find_name_any_saved(st, id) ==
    LET first == ht_search(Deref(st.heap, st.table), id)
    IN IF first = NULL /\ st.saved_table # NULL
       THEN ht_search(Deref(st.heap, st.saved_table), id)
       ELSE first

\* find_name: the IDPropt left in *prop (NULL when the call returns FALSE).
find_name(st, id) ==
    LET first == ht_search(Deref(st.heap, st.table), id)
    IN IF first = NULL /\ st.saved_table # NULL
       THEN LET second == ht_search(Deref(st.heap, st.saved_table), id)
            IN IF second # NULL /\ ~IS_CALLABLE_TYPE(second.type)
               THEN NULL
               ELSE second
       ELSE first

\* prop->offset = off, seen through the entry of `id` that holds prop.
RECURSIVE WriteOffsetChain(_, _, _)
WriteOffsetChain(chain, id, off) ==
    IF chain = <<>> THEN <<>>
    ELSE <<IF key_strcmp(id, Head(chain).key) = 0
           THEN [Head(chain) EXCEPT !.value.offset = off]
           ELSE Head(chain)>> \o WriteOffsetChain(Tail(chain), id, off)

WriteOffset(ht, id, off) ==
    LET k == shift_hash(id, ht.size)
    IN [ht EXCEPT !.table[k] = WriteOffsetChain(@, id, off)]

\* insert_name looking the name up in the active table only, not by find_name.
insert_name_active_only(st, id, prop, okTable, okEntry) ==
    IF ht_search(Deref(st.heap, st.table), id) # NULL
    THEN [st |-> st, ret |-> FALSE]
    ELSE LET r == ht_insert(Deref(st.heap, st.table), id, prop, okTable, okEntry)
         IN IF r.ret # 0
            THEN [st |-> [st EXCEPT !.heap[st.table[1]] = r.ht], ret |-> FALSE]
            ELSE [st |-> [st EXCEPT
                            !.heap[st.table[1]] = WriteOffset(r.ht, id, st.curr_offset),
                            !.curr_offset = IF IS_VARIABLE(prop.type) THEN @ + 1 ELSE @],
                  ret |-> TRUE]

\* insert_name: the state after the call and the Boolean returned.
insert_name(st, id, prop, okTable, okEntry) ==
    IF find_name(st, id) # NULL
    THEN [st |-> st, ret |-> FALSE]
    ELSE LET r == ht_insert(Deref(st.heap, st.table), id, prop, okTable, okEntry)
         IN IF r.ret # 0
            THEN [st |-> [st EXCEPT !.heap[st.table[1]] = r.ht], ret |-> FALSE]
            ELSE [st |-> [st EXCEPT
                            !.heap[st.table[1]] = WriteOffset(r.ht, id, st.curr_offset),
                            !.curr_offset = IF IS_VARIABLE(prop.type) THEN @ + 1 ELSE @],
                  ret |-> TRUE]

\* eprintf (error.c is not among the sources): it reports the message and ends
\* the process, every error being fatal.
eprintf(st) == [st |-> st, ret |-> "exit"]

\* open_subroutine going on to open the scope whatever insert_name returned.
open_subroutine_unchecked(st, id, prop, okTable, okEntry, okHt, okBuckets) ==
    LET ins == insert_name(st, id, prop, okTable, okEntry)
        temp == ht_init(SymTabLoadFactor, okHt, okBuckets)
    IN IF temp = NULL
       THEN eprintf([ins.st EXCEPT !.saved_table = ins.st.table])
       ELSE [st |-> [heap |-> Append(ins.st.heap, temp),
                     table |-> <<Len(ins.st.heap) + 1>>,
                     saved_table |-> ins.st.table,
                     curr_offset |-> 0],
             ret |-> "TRUE"]

\* open_subroutine: okHt and okBuckets are the outcomes of the two malloc calls
\* of its ht_init.  The Boolean returned is "TRUE" or "FALSE"; "exit" when
\* ht_init fails and eprintf ends the process.
open_subroutine(st, id, prop, okTable, okEntry, okHt, okBuckets) ==
    LET ins == insert_name(st, id, prop, okTable, okEntry)
        temp == ht_init(SymTabLoadFactor, okHt, okBuckets)
    IN IF ~ins.ret THEN [st |-> ins.st, ret |-> "FALSE"]
       ELSE IF temp = NULL
       THEN eprintf([ins.st EXCEPT !.saved_table = ins.st.table])
       ELSE [st |-> [heap |-> Append(ins.st.heap, temp),
                     table |-> <<Len(ins.st.heap) + 1>>,
                     saved_table |-> ins.st.table,
                     curr_offset |-> 0],
             ret |-> "TRUE"]

\* close_subroutine resetting the counter only: the local table stays the
\* active one.
close_subroutine_no_restore(st) == [st EXCEPT !.curr_offset = 1]

\* close_subroutine.
close_subroutine(st) ==
    [st EXCEPT !.heap = ht_free(st.heap, st.table, TRUE, TRUE).heap,
               !.curr_offset = 1,
               !.table = st.saved_table]

\* release_symbol_table.
release_symbol_table(st) ==
    [st EXCEPT !.heap = ht_free(st.heap, st.saved_table, TRUE, TRUE).heap]

\* init_symbol_table, its ht_init succeeding.
init_symbol_table ==
    [heap |-> <<ht_init(SymTabLoadFactor, TRUE, TRUE)>>,
     table |-> <<1>>,
     saved_table |-> NULL,
     curr_offset |-> 1]

\* ----------------------------------------------------------- scanner

\* EOF of stdio.h, what fgetc returns at the end of the file.
EOF == -1

\* MAX_ID_LEN is set in token.h, which is not among the sources.
MAX_ID_LEN == 32

MAX_INIT_STR_LEN == 1024

\* The classes of ctype.h in the C locale, each false for EOF.
isspace(c) == c \in {9, 10, 11, 12, 13, 32}

isalpha(c) == c \in 65..90 \/ c \in 97..122

isdigit(c) == c \in 48..57

isprint(c) == c \in 32..126

\* The reserved words, as characters codes, with their token types.
reserved ==
    <<
      [word |-> <<97, 110, 100>>, type |-> "TOK_AND"],  \* and
      [word |-> <<97, 114, 114, 97, 121>>, type |-> "TOK_ARRAY"],  \* array
      [word |-> <<98, 111, 111, 108>>, type |-> "TOK_BOOL"],  \* bool
      [word |-> <<99, 104, 105, 108, 108, 97, 120>>, type |-> "TOK_CHILLAX"],  \* chillax
      [word |-> <<101, 108, 105, 102>>, type |-> "TOK_ELIF"],  \* elif
      [word |-> <<101, 108, 115, 101>>, type |-> "TOK_ELSE"],  \* else
      [word |-> <<101, 110, 100>>, type |-> "TOK_END"],  \* end
      [word |-> <<102, 97, 108, 115, 101>>, type |-> "TOK_FALSE"],  \* false
      [word |-> <<105, 102>>, type |-> "TOK_IF"],  \* if
      [word |-> <<105, 110, 112, 117, 116>>, type |-> "TOK_INPUT"],  \* input
      [word |-> <<105, 110, 116>>, type |-> "TOK_INT"],  \* int
      [word |-> <<108, 101, 116>>, type |-> "TOK_LET"],  \* let
      [word |-> <<109, 97, 105, 110>>, type |-> "TOK_MAIN"],  \* main
      [word |-> <<110, 111, 116>>, type |-> "TOK_NOT"],  \* not
      [word |-> <<111, 114>>, type |-> "TOK_OR"],  \* or
      [word |-> <<111, 117, 116, 112, 117, 116>>, type |-> "TOK_OUTPUT"],  \* output
      [word |-> <<112, 114, 111, 103, 114, 97, 109>>, type |-> "TOK_PROGRAM"],  \* program
      [word |-> <<114, 101, 109>>, type |-> "TOK_REM"],  \* rem
      [word |-> <<114, 101, 116, 117, 114, 110>>, type |-> "TOK_RETURN"],  \* return
      [word |-> <<116, 114, 117, 101>>, type |-> "TOK_TRUE"],  \* true
      [word |-> <<119, 104, 105, 108, 101>>, type |-> "TOK_WHILE"]  \* while
    >>

\* The static variables of scanner.c and the global `position` are one record
\* sc = [src_file, ch, column_number, position]; src_file is the text of the
\* file with the index of the character fgetc returns next.  A scanner
\* function yields the record after the call, err being NULL or, as
\* [message |-> ...], the fatal error the call ended in, and, where it fills in
\* a token, the token: its type and the payload field written.

\* leprintf (error.c is not among the sources): it reports the message at
\* `position` and ends the process, every error being fatal.
leprintf(sc, message) == [sc |-> sc, err |-> [message |-> message]]

\* next_char counting columns only, whatever was read last.
next_char_newline_ignored(sc) ==
    LET atEnd == sc.src_file.pos > Len(sc.src_file.text)
        c == IF atEnd THEN EOF ELSE sc.src_file.text[sc.src_file.pos]
    IN IF c = EOF
       THEN [sc EXCEPT !.ch = EOF, !.column_number = @ + 1]
       ELSE [sc EXCEPT !.src_file.pos = @ + 1, !.ch = c, !.column_number = @ + 1]

\* next_char; last_read is the value ch had when it is called.
next_char(sc) ==
    LET last_read == sc.ch
        atEnd == sc.src_file.pos > Len(sc.src_file.text)
        c == IF atEnd THEN EOF ELSE sc.src_file.text[sc.src_file.pos]
    IN IF c = EOF
       THEN [sc EXCEPT !.ch = EOF, !.column_number = @ + 1]
       ELSE IF last_read = 10
       THEN [sc EXCEPT !.src_file.pos = @ + 1, !.ch = c,
                       !.position.line = @ + 1, !.column_number = 1]
       ELSE [sc EXCEPT !.src_file.pos = @ + 1, !.ch = c,
                       !.column_number = @ + 1]

\* init_scanner on a file holding `text`.
init_scanner(text) ==
    next_char([src_file |-> [text |-> text, pos |-> 1],
               ch |-> 0,
               column_number |-> 0,
               position |-> [line |-> 1, col |-> 0]])

\* skip_comment, called with ch = '{', and its while loop.
RECURSIVE skip_comment(_)
RECURSIVE CommentLoop(_, _)

\* The loop of skip_comment taking '{' inside a comment for any character.
RECURSIVE CommentLoop_without_nesting(_, _)
CommentLoop_without_nesting(sc, start_pos) ==
    IF sc.ch = 125 THEN [sc |-> sc, err |-> NULL]
    ELSE IF sc.ch = EOF
    THEN leprintf([sc EXCEPT !.position = start_pos], "comment not closed")
    ELSE CommentLoop_without_nesting(next_char(sc), start_pos)

\* The loop of skip_comment reporting the error where the input ended.
RECURSIVE CommentLoop_position_kept(_, _)
CommentLoop_position_kept(sc, start_pos) ==
    IF sc.ch = 125 THEN [sc |-> sc, err |-> NULL]
    ELSE IF sc.ch = EOF
    THEN leprintf([sc EXCEPT !.position.col = sc.column_number],
                  "comment not closed")
    ELSE IF sc.ch = 123
    THEN LET inner == skip_comment(sc)
         IN IF inner.err # NULL THEN inner
            ELSE CommentLoop_position_kept(next_char(inner.sc), start_pos)
    ELSE CommentLoop_position_kept(next_char(sc), start_pos)

CommentLoop(sc, start_pos) ==
    IF sc.ch = 125 THEN [sc |-> sc, err |-> NULL]
    ELSE IF sc.ch = EOF
    THEN leprintf([sc EXCEPT !.position = start_pos], "comment not closed")
    ELSE IF sc.ch = 123
    THEN LET inner == skip_comment(sc)
         IN IF inner.err # NULL THEN inner
            ELSE CommentLoop(next_char(inner.sc), start_pos)
    ELSE CommentLoop(next_char(sc), start_pos)

skip_comment(sc) ==
    CommentLoop(next_char(sc),
                [col |-> sc.column_number, line |-> sc.position.line])

\* while (isspace(ch)) next_char();
RECURSIVE SpaceLoop(_)
SpaceLoop(sc) == IF isspace(sc.ch) THEN SpaceLoop(next_char(sc)) ELSE sc

\* The first loop of get_token: white space and comments are skipped.
RECURSIVE SkipLoop(_)
SkipLoop(sc) ==
    IF ~(sc.ch = 123 \/ isspace(sc.ch) \/ sc.ch = 10)
    THEN [sc |-> sc, err |-> NULL]
    ELSE LET spaced == SpaceLoop(sc)
             commented == IF spaced.ch = 123
                          THEN LET c == skip_comment(spaced)
                               IN IF c.err # NULL THEN c
                                  ELSE [sc |-> next_char(c.sc), err |-> NULL]
                          ELSE [sc |-> spaced, err |-> NULL]
         IN IF commented.err # NULL THEN commented
            ELSE SkipLoop(IF commented.sc.ch = 10
                          THEN next_char(commented.sc)
                          ELSE commented.sc)

\* The overflow test leaving the digit to be added out of account.
NumberTooLarge_without_digit(number, nextnum) == number > INT_MAX \div 10

\* The overflow test of process_number.
NumberTooLarge(number, nextnum) == number > (INT_MAX - nextnum) \div 10

\* The while loop of process_number.  number = 10 * number + nextnum is a
\* 32-bit addition; `wrapped` records whether any such addition went past
\* INT_MAX.
RECURSIVE NumberLoop(_, _, _)
NumberLoop(sc, number, wrapped) ==
    IF ~isdigit(sc.ch)
    THEN [sc |-> sc, err |-> NULL,
          token |-> [type |-> "TOK_NUM", value |-> number],
          wrapped |-> wrapped]
    ELSE LET nextnum == sc.ch - 48
         IN IF NumberTooLarge(number, nextnum)
            THEN [wrapped |-> wrapped] @@ leprintf(sc, "number too large")
            ELSE NumberLoop(next_char(sc),
                            WrapAdd(10 * number, nextnum),
                            wrapped \/ 10 * number > INT_MAX - nextnum)

process_number(sc) == NumberLoop(next_char(sc), sc.ch - 48, FALSE)

\* Any character after a backslash taken for an escape code.
IsEscapeCode_any(c) == TRUE

\* Whether ch after a backslash makes an escape code of a string.
IsEscapeCode(c) == c \in {110, 116, 34, 92}

\* Whether my_string[i] lies outside a buffer of nstring + 1 characters.
Outside(i, nstring) == IF i > nstring THEN 1 ELSE 0

\* One pass of the while loop of process_string, the test of its condition
\* included.  A run holds the scanner, the characters stored in my_string so
\* far (i is their number), nstring (the buffer holds nstring + 1
\* characters), the number of stores made outside the buffer, whether the
\* loop is still running and, once leprintf ended the scan, its result.
\* malloc and realloc are taken to succeed.
StringBody(run) ==
    IF ~run.running THEN run
    ELSE IF run.sc.ch = 34 THEN [run EXCEPT !.running = FALSE]
    ELSE IF run.sc.ch = EOF
    THEN [run EXCEPT !.running = FALSE,
                     !.result = leprintf(run.sc, "string not closed")]
    ELSE LET sc == run.sc
             i == Len(run.my_string)
             nstring == IF i >= run.nstring THEN 2 * run.nstring ELSE run.nstring
         IN IF ~isprint(sc.ch)
            THEN [run EXCEPT
                     !.running = FALSE, !.nstring = nstring,
                     !.result = leprintf([sc EXCEPT !.position.col = sc.column_number],
                                         "non-printable character in string")]
            ELSE IF sc.ch = 92
            THEN LET escaped == next_char(sc)
                 IN IF IsEscapeCode(escaped.ch)
                    THEN [run EXCEPT
                             !.sc = next_char(escaped),
                             !.my_string = @ \o <<92, escaped.ch>>,
                             !.nstring = nstring,
                             !.outside = @ + Outside(i, nstring)
                                           + Outside(i + 1, nstring)]
                    ELSE [run EXCEPT
                             !.running = FALSE, !.nstring = nstring,
                             !.outside = @ + Outside(i, nstring),
                             !.result = leprintf([escaped EXCEPT
                                            !.position.col = escaped.column_number - 1],
                                            "illegal escape code in string")]
            ELSE [run EXCEPT !.sc = next_char(sc),
                             !.my_string = Append(@, sc.ch),
                             !.nstring = nstring,
                             !.outside = @ + Outside(i, nstring)]

\* The while loop of process_string: the run after at most `passes` passes,
\* the second half of the passes following the first half.
RECURSIVE StringLoop(_, _)
StringLoop(run, passes) ==
    IF passes = 0 \/ ~run.running THEN run
    ELSE IF passes = 1 THEN StringBody(run)
    ELSE LET half == StringLoop(run, passes \div 2)
         IN StringLoop(half, passes - (passes \div 2))

\* process_string, called with ch the character after the opening quote.  A
\* pass of the loop that does not end it reads a character of the file, so
\* the loop has ended after one pass more than the file has characters.
process_string(sc) ==
    LET run == StringLoop([sc |-> sc, my_string |-> <<>>,
                           nstring |-> MAX_INIT_STR_LEN, outside |-> 0,
                           running |-> TRUE, result |-> NULL],
                          Len(sc.src_file.text) + 1)
    IN IF run.result # NULL
       THEN [outside |-> run.outside] @@ run.result
       ELSE [sc |-> [next_char(run.sc) EXCEPT !.position.col = sc.column_number - 1],
             err |-> NULL,
             token |-> [type |-> "TOK_STR", string |-> run.my_string],
             outside |-> run.outside + Outside(Len(run.my_string), run.nstring)]

strcmp(s1, s2) == key_strcmp(s1, s2)

\* A binary search that gives up instead of going on in the upper half.
RECURSIVE BinarySearch_lower_half(_, _, _)
BinarySearch_lower_half(lexeme, low, high) ==
    IF low > high THEN 0
    ELSE LET mid == low + (high - low) \div 2
             cmp == strcmp(lexeme, reserved[mid].word)
         IN IF cmp = 0 THEN mid
            ELSE IF cmp < 0 THEN BinarySearch_lower_half(lexeme, low, mid - 1)
            ELSE 0

\* The binary search of process_word; the indices are those of the source
\* plus one.  Yields the index mid of the match, or 0 when the search ends
\* without one.
RECURSIVE BinarySearch(_, _, _)
BinarySearch(lexeme, low, high) ==
    IF low > high THEN 0
    ELSE LET mid == low + (high - low) \div 2
             cmp == strcmp(lexeme, reserved[mid].word)
         IN IF cmp = 0 THEN mid
            ELSE IF cmp < 0 THEN BinarySearch(lexeme, low, mid - 1)
            ELSE BinarySearch(lexeme, mid + 1, high)

\* The loop with the length tested one character late.
RECURSIVE WordLoop_late_check(_, _)
WordLoop_late_check(sc, lexeme) ==
    IF isalpha(sc.ch) \/ sc.ch = 95 \/ isdigit(sc.ch)
    THEN IF Len(lexeme) = MAX_ID_LEN + 1
         THEN [lexeme |-> lexeme] @@ leprintf(sc, "identifier too long")
         ELSE WordLoop_late_check(next_char(sc), Append(lexeme, sc.ch))
    ELSE [sc |-> sc, err |-> NULL, lexeme |-> lexeme]

\* The first while loop of process_word, lexeme being lexeme[0..i-1].
RECURSIVE WordLoop(_, _)
WordLoop(sc, lexeme) ==
    IF isalpha(sc.ch) \/ sc.ch = 95 \/ isdigit(sc.ch)
    THEN IF Len(lexeme) = MAX_ID_LEN
         THEN [lexeme |-> lexeme] @@ leprintf(sc, "identifier too long")
         ELSE WordLoop(next_char(sc), Append(lexeme, sc.ch))
    ELSE [sc |-> sc, err |-> NULL, lexeme |-> lexeme]

\* process_word; `written` is the number of elements of the buffer `lexeme`
\* the call wrote, the terminator included.
process_word(sc) ==
    LET w == WordLoop(sc, <<>>)
        mid == BinarySearch(w.lexeme, 1, Len(reserved))
    IN IF w.err # NULL
       THEN [sc |-> w.sc, err |-> w.err, written |-> Len(w.lexeme)]
       ELSE [sc |-> w.sc, err |-> NULL, written |-> Len(w.lexeme) + 1,
             token |-> IF mid # 0
                       THEN [type |-> reserved[mid].type, lexeme |-> <<>>]
                       ELSE [type |-> "TOK_ID", lexeme |-> w.lexeme]]

\* A one-character case that sets the type without reading on.
OneChar_without_next_char(sc, type) ==
    [sc |-> sc, err |-> NULL, token |-> [type |-> type]]

\* A case of the switch that reads one character and sets the type.
OneChar(sc, type) ==
    [sc |-> next_char(sc), err |-> NULL, token |-> [type |-> type]]

\* A two-character case that never looks at the second character.
TwoChar_without_lookahead(sc, second, both, alone) ==
    [sc |-> next_char(sc), err |-> NULL, token |-> [type |-> alone]]

\* A case of the switch in which a second character can complete an operator:
\* `alone` is the type of the first character by itself.
TwoChar(sc, second, both, alone) ==
    LET after == next_char(sc)
    IN IF after.ch = second
       THEN [sc |-> next_char(after), err |-> NULL, token |-> [type |-> both]]
       ELSE [sc |-> after, err |-> NULL, token |-> [type |-> alone]]

\* A case of the switch for a character that is a token only when doubled.
Doubled(sc, both) ==
    LET after == next_char(sc)
    IN IF after.ch = sc.ch
       THEN [sc |-> next_char(after), err |-> NULL, token |-> [type |-> both]]
       ELSE leprintf([after EXCEPT !.position.col = after.column_number - 1],
                     "illegal character")

\* The switch of get_token.
Switch(sc) ==
    CASE sc.ch = 34 -> process_string(next_char(sc))
      [] sc.ch = 61 -> OneChar(sc, "TOK_EQ")
      [] sc.ch = 62 -> TwoChar(sc, 61, "TOK_GE", "TOK_GT")
      [] sc.ch = 60 -> TwoChar(sc, 61, "TOK_LE", "TOK_LT")
      [] sc.ch = 47 -> TwoChar(sc, 61, "TOK_NE", "TOK_DIV")
      [] sc.ch = 45 -> TwoChar(sc, 62, "TOK_ARROW", "TOK_MINUS")
      [] sc.ch = 124 -> Doubled(sc, "TOK_OR")
      [] sc.ch = 43 -> OneChar(sc, "TOK_PLUS")
      [] sc.ch = 38 -> Doubled(sc, "TOK_AND")
      [] sc.ch = 42 -> OneChar(sc, "TOK_MUL")
      [] sc.ch = 37 -> OneChar(sc, "TOK_REM")
      [] sc.ch = 58 -> OneChar(sc, "TOK_COLON")
      [] sc.ch = 44 -> OneChar(sc, "TOK_COMMA")
      [] sc.ch = 46 -> Doubled(sc, "TOK_DOTDOT")
      [] sc.ch = 91 -> OneChar(sc, "TOK_LBRACK")
      [] sc.ch = 40 -> OneChar(sc, "TOK_LPAREN")
      [] sc.ch = 93 -> OneChar(sc, "TOK_RBRACK")
      [] sc.ch = 41 -> OneChar(sc, "TOK_RPAREN")
      [] sc.ch = 59 -> OneChar(sc, "TOK_SEMICOLON")
      [] OTHER -> leprintf([sc EXCEPT !.position.col = sc.column_number],
                           "illegal character")

\* get_token: the scanner after the call, the token filled in (when the call
\* returns), or the fatal error it ended in.
get_token(sc) ==
    LET skipped == SkipLoop(sc)
        start == [skipped.sc EXCEPT !.position.col = skipped.sc.column_number]
    IN IF skipped.err # NULL THEN skipped
       ELSE IF start.ch = EOF
       THEN [sc |-> [start EXCEPT !.position.col = @ - 1], err |-> NULL,
             token |-> [type |-> "TOK_EOF"]]
       ELSE IF isalpha(start.ch) \/ start.ch = 95 THEN process_word(start)
       ELSE IF isdigit(start.ch) THEN process_number(start)
       ELSE Switch(start)

\* ------------------------------------------------------------- parser

\* The bodies of these macros are empty in valtypes.h; they are taken from
\* their names and their use in amplc.c: the array flag and the integer flag
\* of the flag word.
IS_ARRAY_TYPE(type) == HasFlag(type, TYPE_ARRAY)

IS_INTEGER_TYPE(type) == HasFlag(type, TYPE_INTEGER)

SET_AS_ARRAY(type) == IF HasFlag(type, TYPE_ARRAY) THEN type ELSE type + TYPE_ARRAY

SET_BASE_TYPE(type) == IF HasFlag(type, TYPE_ARRAY) THEN type - TYPE_ARRAY ELSE type

\* The macros of amplc.c on token types; IS_ADDOP is a range of the TokenType
\* enumeration, whose order is that of token_names in token.c.
STARTS_FACTOR(toktype) ==
    toktype \in {"TOK_ID", "TOK_NUM", "TOK_LPAREN", "TOK_NOT", "TOK_TRUE", "TOK_FALSE"}

STARTS_EXPR(toktype) == toktype = "TOK_MINUS" \/ STARTS_FACTOR(toktype)

IS_ADDOP(toktype) == toktype \in {"TOK_MINUS", "TOK_OR", "TOK_PLUS"}

IS_MULOP(toktype) == toktype \in {"TOK_AND", "TOK_DIV", "TOK_MUL", "TOK_REM"}

IS_RELOP(toktype) ==
    toktype \in {"TOK_EQ", "TOK_GE", "TOK_GT", "TOK_LE", "TOK_LT", "TOK_NE"}

IS_TYPE(toktype) == toktype \in {"TOK_BOOL", "TOK_INT"}

\* The value of a one-point function: With([x \in {e} |-> body]) is body for
\* x = e, the value of e being computed once.
With(f) == f[CHOOSE x \in DOMAIN f : TRUE]

\* A compilation is one record cp:
\*   sc       the scanner (scanner.c's static variables and `position`)
\*   token    the lookahead token of amplc.c
\*   st       the symbol table (symboltable.c's static variables)
\*   code     the code-generation calls made so far, in order
\*   labels   the labels get_label has handed out
\*   halted   the process has ended inside the translation
\*   signal   NULL, or how it ended other than by a reported error
\*   errors   the errors reported so far, message being the first of them
\*   fetched  the get_token calls made
\*   late     the get_token and code-generation calls made after an error
\*   handed   the payloads given to insert_name and open_subroutine
\*   frees    the tables given to ht_free by close_subroutine
\*   bodies   the state at the start of each subroutine body
\*   reads    the payload members of `token` read, each with the type the
\*            token had when it was read
\*   open     the calls of parse_if and parse_while that have not returned,
\*            each with the labels it holds and the generator calls made
\*            before it (`from`)
\*   stmts    the calls of parse_if and parse_while that returned, each also
\*            with the generator calls made when it returned (`to`)
\*   build    what the build does where the language leaves it open: `null`
\*            is "fault" (an access through a null pointer ends the process) or
\*            "reads" (a load through it yields `value`, a store is dropped);
\*            `value` is also what an uninitialised ValType holds.

\* What a value that was never written, or a union member that was not the
\* one written last, holds.
Indeterminate == [indeterminate |-> TRUE]

\* get_token(&token) writes the type and at most one payload member of the
\* token; the payload members share their storage.
StoreToken(old, new) ==
    IF DOMAIN new = {"type"} THEN [old EXCEPT !.type = new.type] ELSE new

TokenString(tok) == IF "string" \in DOMAIN tok THEN tok.string ELSE Indeterminate

TokenLexeme(tok) == IF "lexeme" \in DOMAIN tok THEN tok.lexeme ELSE <<>>

TokenValue(tok) == IF "value" \in DOMAIN tok THEN tok.value ELSE 0

\* The process ends without an error report: a fault on a null pointer, or a
\* use of a table that was freed, after which nothing is defined.
Killed(cp, signal) ==
    IF cp.halted THEN cp ELSE [cp EXCEPT !.halted = TRUE, !.signal = signal]

\* An error is reported and the process ends (leprintf, eprintf).
Report(cp, message) ==
    IF cp.halted THEN cp
    ELSE [cp EXCEPT !.errors = @ + 1,
                    !.message = IF cp.errors = 0 THEN message ELSE @,
                    !.halted = TRUE]

\* A report after which the translation goes on.
abort_c_returning(cp, message) ==
    IF cp.halted THEN cp
    ELSE [cp EXCEPT !.errors = @ + 1,
                    !.message = IF cp.errors = 0 THEN message ELSE @]

\* abort_c: _abort_cp builds the message and calls leprintf.
abort_c(cp, message) == Report(cp, message)

\* chktypes, the one routine that reports a type error; no routine of amplc.c
\* calls it.
chktypes(cp, found, expected) ==
    IF found # expected
    THEN Report(cp, [message |-> "incompatible types", expected |-> expected,
                     found |-> found])
    ELSE cp

\* The routines of the parser call one another by name through Call, which
\* applies the routine named to the arguments given.
RECURSIVE Call(_, _)

\* get_token(&token) as the parser calls it.
Advance(cp) ==
    IF cp.halted THEN cp
    ELSE With([r \in {get_token(cp.sc)} |->
         With([counted \in {[cp EXCEPT !.sc = r.sc,
                                   !.fetched = @ + 1,
                                   !.late = IF cp.errors > 0 THEN @ + 1 ELSE @]} |->
         IF r.err # NULL
            THEN Report(counted, r.err)
            ELSE [counted EXCEPT !.token = StoreToken(cp.token, r.token)]])])

\* A read of token.lexeme, token.value or token.string.
ReadPayload(cp, member) ==
    IF cp.halted THEN cp
    ELSE [cp EXCEPT !.reads = Append(@, [member |-> member, of |-> cp.token.type])]

\* A call of the code generator (codegen.c is not among the sources): the
\* calls are kept in order.
Gen(cp, call) ==
    IF cp.halted THEN cp
    ELSE [cp EXCEPT !.code = Append(@, call),
                    !.late = IF cp.errors > 0 THEN @ + 1 ELSE @]

gen_1(cp, op) == Gen(cp, [gen |-> "gen_1", op |-> op])

gen_2(cp, op, arg) == Gen(cp, [gen |-> "gen_2", op |-> op, arg |-> arg])

gen_2_label(cp, op, label) == Gen(cp, [gen |-> "gen_2_label", op |-> op, label |-> label])

gen_label(cp, label) == Gen(cp, [gen |-> "gen_label", label |-> label])

gen_cmp(cp, op) == Gen(cp, [gen |-> "gen_cmp", op |-> op])

gen_newarray(cp, atype) == Gen(cp, [gen |-> "gen_newarray", atype |-> atype])

gen_read(cp, type) == Gen(cp, [gen |-> "gen_read", type |-> type])

gen_print(cp, type) == Gen(cp, [gen |-> "gen_print", type |-> type])

gen_print_string(cp, string) == Gen(cp, [gen |-> "gen_print_string", string |-> string])

gen_call(cp, id, propt) == Gen(cp, [gen |-> "gen_call", id |-> id, propt |-> propt])

\* get_label: the label, and the compilation with the label taken.
get_label(cp) ==
    [cp |-> IF cp.halted THEN cp ELSE [cp EXCEPT !.labels = @ + 1],
     label |-> cp.labels + 1]

\* The labels a statement holds: a call of parse_if or parse_while that has
\* taken `labels` is noted with the number of generator calls made before it,
\* a label taken later in the call is added to its note, and when the call
\* returns the note is kept with the number of generator calls made by then.
Enter(cp, kind, labels) ==
    IF cp.halted THEN cp
    ELSE [cp EXCEPT !.open = Append(@, [kind |-> kind, labels |-> labels,
                                        from |-> Len(cp.code)])]

Obtain(cp, label) ==
    IF cp.halted THEN cp
    ELSE [cp EXCEPT !.open[Len(cp.open)].labels = Append(@, label)]

Leave(cp) ==
    IF cp.halted THEN cp
    ELSE [cp EXCEPT !.open = SubSeq(@, 1, Len(@) - 1),
                    !.stmts = Append(@, [to |-> Len(cp.code)] @@ cp.open[Len(cp.open)])]

\* expect.
expect(cp, type) ==
    IF cp.token.type = type
    THEN Call("Advance", <<cp>>)
    ELSE abort_c(cp, [message |-> "expected", expected |-> type,
                      found |-> cp.token.type])

\* expect_id: the compilation after the call and the copy of the lexeme left
\* in *id (the empty string standing for a pointer that was not set).
expect_id(cp) ==
    IF cp.token.type = "TOK_ID"
    THEN [cp |-> Call("Advance", <<ReadPayload(cp, "lexeme")>>),
          id |-> TokenLexeme(cp.token)]
    ELSE [cp |-> Report(abort_c(cp, [message |-> "expected", expected |-> "TOK_ID",
                                     found |-> cp.token.type]),
                        [message |-> "df"]),
          id |-> <<>>]

\* Whether the tables the symbol table points to are still allocated.
TablesLive(st) ==
    /\ st.table # NULL
    /\ Deref(st.heap, st.table) # FREED
    /\ st.saved_table # NULL => Deref(st.heap, st.saved_table) # FREED

\* find_name(id, &propt) followed by the first use of *propt, the result of
\* find_name not being tested: the compilation and the properties read.
Lookup(cp, id) ==
    IF cp.halted
    THEN [cp |-> cp, propt |-> idpropt(cp.build.value, 0, 0, NULL), found |-> FALSE]
    ELSE IF ~TablesLive(cp.st)
    THEN [cp |-> Killed(cp, "use after free"),
          propt |-> idpropt(cp.build.value, 0, 0, NULL), found |-> FALSE]
    ELSE With([propt \in {find_name(cp.st, id)} |->
         IF propt # NULL
            THEN [cp |-> cp, propt |-> propt, found |-> TRUE]
            ELSE IF cp.build.null = "fault"
            THEN [cp |-> Killed(cp, "fault"),
                  propt |-> idpropt(cp.build.value, 0, 0, NULL), found |-> FALSE]
            ELSE [cp |-> cp,
                  propt |-> idpropt(cp.build.value, 0, 0, NULL),
                  found |-> FALSE]])

\* insert_name(id, prop) as the parser calls it, no allocation failing; what
\* was handed over is kept with the table it went to and the value returned.
Declare(cp, id, prop) ==
    IF cp.halted THEN cp
    ELSE IF ~TablesLive(cp.st) THEN Killed(cp, "use after free")
    ELSE With([r \in {insert_name(cp.st, id, prop, TRUE, TRUE)} |->
         [cp EXCEPT !.st = r.st,
                       !.handed = Append(@, [id |-> id, prop |-> prop,
                                             table |-> cp.st.table,
                                             accepted |-> r.ret])]])

\* The parse routines that yield a type take the value *type had and yield
\* [cp, type].

\* The instruction of each operator.
RelInstr(toktype) ==
    CASE toktype = "TOK_EQ" -> "JVM_IF_ICMPEQ"
      [] toktype = "TOK_GE" -> "JVM_IF_ICMPGE"
      [] toktype = "TOK_GT" -> "JVM_IF_ICMPGT"
      [] toktype = "TOK_LE" -> "JVM_IF_ICMPLE"
      [] toktype = "TOK_LT" -> "JVM_IF_ICMPLT"
      [] toktype = "TOK_NE" -> "JVM_IF_ICMPNE"

\* Every additive operator taken as a subtraction.
AddInstr_always_sub(toktype) == "JVM_ISUB"

AddInstr(toktype) ==
    CASE toktype = "TOK_MINUS" -> "JVM_ISUB"
      [] toktype = "TOK_PLUS" -> "JVM_IADD"
      [] toktype = "TOK_OR" -> "JVM_IOR"

MulInstr(toktype) ==
    CASE toktype = "TOK_MUL" -> "JVM_IMUL"
      [] toktype = "TOK_DIV" -> "JVM_IDIV"
      [] toktype = "TOK_AND" -> "JVM_IAND"
      [] toktype = "TOK_REM" -> "JVM_IREM"

\* parse_expr.
parse_expr(cp, type) ==
    IF cp.halted THEN [cp |-> cp, type |-> type]
    ELSE With([left \in {Call("parse_simple", <<cp, type>>)} |->
         With([relop \in {left.cp.token.type} |->
         IF ~left.cp.halted /\ IS_RELOP(relop)
            THEN With([right \in {Call("parse_simple", <<Call("Advance", <<left.cp>>), cp.build.value>>)} |->
                 [cp |-> gen_cmp(right.cp, RelInstr(relop)),
                     type |-> TYPE_BOOLEAN]])
            ELSE left])])

\* The while loop of parse_simple.
SimpleLoop(cp, type) ==
    IF ~cp.halted /\ IS_ADDOP(cp.token.type)
    THEN With([term \in {Call("parse_term", <<Call("Advance", <<cp>>), type>>)} |->
         Call("SimpleLoop", <<gen_1(term.cp, AddInstr(cp.token.type)), term.type>>)])
    ELSE [cp |-> cp, type |-> type]

\* parse_simple with the negation emitted after the whole additive chain.
parse_simple_negating_all(cp, type) ==
    IF cp.halted THEN [cp |-> cp, type |-> type]
    ELSE IF cp.token.type = "TOK_MINUS"
    THEN With([term \in {Call("parse_term", <<Call("Advance", <<cp>>), type>>)} |->
         With([chain \in {Call("SimpleLoop", <<term.cp, term.type>>)} |->
         [cp |-> gen_1(chain.cp, "JVM_INEG"), type |-> chain.type]])])
    ELSE With([term \in {Call("parse_term", <<cp, type>>)} |->
         Call("SimpleLoop", <<term.cp, term.type>>)])

\* parse_simple.
parse_simple(cp, type) ==
    IF cp.halted THEN [cp |-> cp, type |-> type]
    ELSE IF cp.token.type = "TOK_MINUS"
    THEN With([term \in {Call("parse_term", <<Call("Advance", <<cp>>), type>>)} |->
         Call("SimpleLoop", <<gen_1(term.cp, "JVM_INEG"), term.type>>)])
    ELSE With([term \in {Call("parse_term", <<cp, type>>)} |->
         Call("SimpleLoop", <<term.cp, term.type>>)])

\* The while loop of parse_term.
TermLoop(cp, type) ==
    IF ~cp.halted /\ IS_MULOP(cp.token.type)
    THEN With([factor \in {Call("parse_factor", <<Call("Advance", <<cp>>), type>>)} |->
         Call("TermLoop", <<gen_1(factor.cp, MulInstr(cp.token.type)), factor.type>>)])
    ELSE [cp |-> cp, type |-> type]

\* parse_term.
parse_term(cp, type) ==
    IF cp.halted THEN [cp |-> cp, type |-> type]
    ELSE With([factor \in {Call("parse_factor", <<cp, type>>)} |->
         Call("TermLoop", <<factor.cp, factor.type>>)])

\* parse_index.
parse_index(cp) ==
    With([simple \in {Call("parse_simple", <<Call("expect", <<cp, "TOK_LBRACK">>), cp.build.value>>)} |->
    Call("expect", <<simple.cp, "TOK_RBRACK">>)])

\* The while loop of parse_arglist.
ArgLoop(cp, type) ==
    IF ~cp.halted /\ cp.token.type = "TOK_COMMA"
    THEN With([expr \in {Call("parse_expr", <<Call("Advance", <<cp>>), type>>)} |->
         Call("ArgLoop", <<expr.cp, expr.type>>)])
    ELSE cp

\* parse_arglist.
parse_arglist(cp) ==
    With([expr \in {Call("parse_expr", <<Call("expect", <<cp, "TOK_LPAREN">>), cp.build.value>>)} |->
    Call("expect", <<Call("ArgLoop", <<expr.cp, expr.type>>), "TOK_RPAREN">>)])

\* parse_factor.
parse_factor(cp, vt) ==
    IF cp.halted THEN [cp |-> cp, type |-> vt]
    ELSE CASE cp.token.type = "TOK_ID" ->
                With([e \in {Call("expect_id", <<cp>>)} |->
                With([l \in {Call("Lookup", <<e.cp, e.id>>)} |->
                With([at \in {l.cp} |->
                IF at.halted THEN [cp |-> at, type |-> vt]
                   ELSE IF at.token.type = "TOK_LBRACK"
                   THEN [cp |-> gen_1(Call("parse_index", <<gen_2(at, "JVM_ALOAD", l.propt.offset)>>),
                                      "JVM_IALOAD"),
                         type |-> SET_BASE_TYPE(l.propt.type)]
                   ELSE IF at.token.type = "TOK_LPAREN"
                   THEN [cp |-> gen_call(Call("parse_arglist", <<at>>), e.id, l.propt),
                         type |-> l.propt.type]
                   ELSE IF IS_ARRAY_TYPE(l.propt.type)
                   THEN [cp |-> gen_2(at, "JVM_ALOAD", l.propt.offset),
                         type |-> l.propt.type]
                   ELSE [cp |-> gen_2(at, "JVM_ILOAD", l.propt.offset),
                         type |-> l.propt.type]])])])
           [] cp.token.type = "TOK_NUM" ->
                [cp |-> Call("Advance", <<gen_2(ReadPayload(cp, "value"), "JVM_LDC",
                                                TokenValue(cp.token))>>),
                 type |-> TYPE_INTEGER]
           [] cp.token.type = "TOK_LPAREN" ->
                With([expr \in {Call("parse_expr", <<Call("Advance", <<cp>>), vt>>)} |->
                [cp |-> Call("expect", <<expr.cp, "TOK_RPAREN">>), type |-> expr.type]])
           [] cp.token.type = "TOK_NOT" ->
                With([factor \in {Call("parse_factor", <<Call("Advance", <<cp>>), vt>>)} |->
                [cp |-> gen_1(gen_2(factor.cp, "JVM_LDC", 1), "JVM_IXOR"),
                    type |-> factor.type]])
           [] cp.token.type = "TOK_TRUE" ->
                [cp |-> Call("Advance", <<gen_2(cp, "JVM_LDC", 1)>>), type |-> TYPE_BOOLEAN]
           [] cp.token.type = "TOK_FALSE" ->
                [cp |-> Call("Advance", <<gen_2(cp, "JVM_LDC", 0)>>), type |-> TYPE_BOOLEAN]
           [] OTHER ->
                [cp |-> abort_c(cp, [message |-> "expected factor",
                                     found |-> cp.token.type]),
                 type |-> vt]

\* parse_type: *type is written only for 'int' and 'bool'; the token is
\* consumed whatever it is.
parse_type(cp, type) ==
    With([base \in {IF cp.token.type = "TOK_INT" THEN TYPE_INTEGER
                ELSE IF cp.token.type = "TOK_BOOL" THEN TYPE_BOOLEAN
                ELSE type} |->
    With([after \in {Call("Advance", <<cp>>)} |->
    IF ~after.halted /\ after.token.type = "TOK_ARRAY"
       THEN [cp |-> Call("Advance", <<after>>), type |-> SET_AS_ARRAY(base)]
       ELSE [cp |-> after, type |-> base]])])

\* The while loop of parse_vardef.
VardefLoop(cp, type) ==
    IF ~cp.halted /\ cp.token.type = "TOK_COMMA"
    THEN With([e \in {Call("expect_id", <<Call("Advance", <<cp>>)>>)} |->
         Call("VardefLoop", <<Call("Declare", <<e.cp, e.id, idpropt(type, 0, 0, NULL)>>), type>>)])
    ELSE cp

\* parse_vardef: what insert_name returns is not looked at.
parse_vardef(cp) ==
    With([t \in {Call("parse_type", <<cp, cp.build.value>>)} |->
    With([e \in {Call("expect_id", <<t.cp>>)} |->
    Call("expect", <<Call("VardefLoop", <<Call("Declare", <<e.cp, e.id, idpropt(t.type, 0, 0, NULL)>>), t.type>>),
              "TOK_SEMICOLON">>)])])

\* The array type parse_assign allocates, `size` being what parse_simple left
\* in `type` for the size expression.
AllocationType(size) ==
    IF IS_INTEGER_TYPE(size) THEN "T_INT" ELSE "T_BOOLEAN"

\* parse_assign.
parse_assign(cp) ==
    With([e \in {Call("expect_id", <<Call("expect", <<cp, "TOK_LET">>)>>)} |->
    With([l \in {Call("Lookup", <<e.cp, e.id>>)} |->
    With([indexed \in {~l.cp.halted /\ l.cp.token.type = "TOK_LBRACK"} |->
    With([target \in {IF indexed
                  THEN Call("parse_index", <<gen_2(l.cp, "JVM_ALOAD", l.propt.offset)>>)
                  ELSE l.cp} |->
    With([type \in {IF indexed THEN SET_BASE_TYPE(l.propt.type) ELSE l.propt.type} |->
    With([at \in {Call("expect", <<target, "TOK_EQ">>)} |->
    IF at.halted THEN at
       ELSE IF STARTS_EXPR(at.token.type)
       THEN With([expr \in {Call("parse_expr", <<at, type>>)} |->
            IF IS_ARRAY_TYPE(expr.type)
               THEN gen_2(expr.cp, "JVM_ASTORE", l.propt.offset)
               ELSE IF IS_ARRAY_TYPE(l.propt.type)
               THEN gen_1(expr.cp, "JVM_IASTORE")
               ELSE gen_2(expr.cp, "JVM_ISTORE", l.propt.offset)])
       ELSE IF at.token.type = "TOK_ARRAY"
       THEN With([size \in {Call("parse_simple", <<Call("Advance", <<at>>), type>>)} |->
            gen_2(gen_newarray(size.cp, AllocationType(size.type)),
                     "JVM_ASTORE", l.propt.offset)])
       ELSE abort_c(at, [message |-> "expected expression or array allocation",
                         found |-> at.token.type])])])])])])])

\* parse_call: the identifier is not looked up.
parse_call(cp) == Call("parse_arglist", <<Call("expect_id", <<cp>>).cp>>)

\* The while loop of parse_if over the elif branches; n is the end label.
ElifLoop(cp, n) ==
    IF ~cp.halted /\ cp.token.type = "TOK_ELIF"
    THEN With([l \in {get_label(Call("Advance", <<cp>>))} |->
         With([expr \in {Call("parse_expr", <<Obtain(l.cp, l.label), cp.build.value>>)} |->
         With([then \in {Call("parse_statements", <<
                         Call("expect", <<gen_2_label(expr.cp, "JVM_IFEQ", l.label),
                                "TOK_COLON">>)>>)} |->
         Call("ElifLoop", <<gen_label(gen_2_label(then, "JVM_GOTO", n), l.label), n>>)])])])
    ELSE cp

\* parse_if.
parse_if(cp) ==
    With([n \in {get_label(cp)} |->
    With([c \in {get_label(n.cp)} |->
    With([expr \in {Call("parse_expr", <<Call("expect", <<Enter(c.cp, "if", <<n.label, c.label>>),
                                                          "TOK_IF">>),
                                         cp.build.value>>)} |->
    With([then \in {Call("parse_statements", <<
                    gen_2_label(Call("expect", <<expr.cp, "TOK_COLON">>), "JVM_IFEQ", c.label)>>)} |->
    With([elifs \in {Call("ElifLoop", <<gen_label(gen_2_label(then, "JVM_GOTO", n.label), c.label),
                          n.label>>)} |->
    With([else \in {IF ~elifs.halted /\ elifs.token.type = "TOK_ELSE"
                THEN Call("parse_statements", <<Call("expect", <<Call("Advance", <<elifs>>), "TOK_COLON">>)>>)
                ELSE elifs} |->
    Leave(Call("expect", <<gen_label(else, n.label), "TOK_END">>))])])])])])])

\* parse_input.
parse_input(cp) ==
    With([e \in {Call("expect_id", <<Call("expect", <<Call("expect", <<cp, "TOK_INPUT">>), "TOK_LPAREN">>)>>)} |->
    With([l \in {Call("Lookup", <<e.cp, e.id>>)} |->
    With([v \in {l.propt.type} |->
    With([scalar \in {IF v \notin {5, 3} /\ v \in {TYPE_BOOLEAN, TYPE_INTEGER}
                  THEN gen_2(gen_read(l.cp, v), "JVM_ISTORE", l.propt.offset)
                  ELSE l.cp} |->
    With([element \in {IF ~scalar.halted /\ scalar.token.type = "TOK_LBRACK"
                   THEN gen_1(gen_read(Call("parse_index", <<gen_2(scalar, "JVM_ALOAD",
                                                         l.propt.offset)>>),
                                       SET_BASE_TYPE(v)),
                              "JVM_IASTORE")
                   ELSE scalar} |->
    Call("expect", <<element, "TOK_RPAREN">>)])])])])])

\* One operand of output: a string, printed after the token following it has
\* been fetched, or an expression.
OutputItem(cp) ==
    IF cp.halted THEN cp
    ELSE IF cp.token.type = "TOK_STR"
    THEN With([after \in {Call("Advance", <<cp>>)} |->
         gen_print_string(ReadPayload(after, "string"), TokenString(after.token))])
    ELSE IF STARTS_EXPR(cp.token.type)
    THEN With([expr \in {Call("parse_expr", <<cp, cp.build.value>>)} |->
         gen_print(expr.cp, expr.type)])
    ELSE abort_c(cp, [message |-> "expected expression or string",
                      found |-> cp.token.type])

\* The while loop of parse_output.
OutputLoop(cp) ==
    IF ~cp.halted /\ cp.token.type = "TOK_DOTDOT"
    THEN Call("OutputLoop", <<Call("OutputItem", <<Call("Advance", <<cp>>)>>)>>)
    ELSE cp

\* parse_output.
parse_output(cp) ==
    Call("expect", <<Call("OutputLoop", <<Call("OutputItem", <<Call("expect", <<Call("expect", <<cp, "TOK_OUTPUT">>), "TOK_LPAREN">>)>>)>>),
           "TOK_RPAREN">>)

\* parse_return.
parse_return(cp) ==
    With([at \in {Call("expect", <<cp, "TOK_RETURN">>)} |->
    IF ~at.halted /\ STARTS_EXPR(at.token.type)
       THEN gen_1(Call("parse_expr", <<at, cp.build.value>>).cp, "JVM_RETURN")
       ELSE gen_1(at, "JVM_RETURN")])

\* parse_while leaving the label stop unbound.
parse_while_without_stop(cp) ==
    With([start \in {get_label(cp)} |->
    With([stop \in {get_label(start.cp)} |->
    With([expr \in {Call("parse_expr", <<
                    Call("expect", <<gen_label(Enter(stop.cp, "while",
                                                     <<start.label, stop.label>>),
                                               start.label), "TOK_WHILE">>),
                    cp.build.value>>)} |->
    With([body \in {Call("parse_statements", <<
                    Call("expect", <<gen_2_label(expr.cp, "JVM_IFEQ", stop.label), "TOK_COLON">>)>>)} |->
    Leave(Call("expect", <<gen_2_label(body, "JVM_GOTO", start.label), "TOK_END">>))])])])])

\* parse_while.
parse_while(cp) ==
    With([start \in {get_label(cp)} |->
    With([stop \in {get_label(start.cp)} |->
    With([expr \in {Call("parse_expr", <<
                    Call("expect", <<gen_label(Enter(stop.cp, "while",
                                                     <<start.label, stop.label>>),
                                               start.label), "TOK_WHILE">>),
                    cp.build.value>>)} |->
    With([body \in {Call("parse_statements", <<
                    Call("expect", <<gen_2_label(expr.cp, "JVM_IFEQ", stop.label), "TOK_COLON">>)>>)} |->
    Leave(Call("expect", <<gen_label(gen_2_label(body, "JVM_GOTO", start.label), stop.label),
                    "TOK_END">>))])])])])

\* parse_statement.
parse_statement(cp) ==
    IF cp.halted THEN cp
    ELSE CASE cp.token.type = "TOK_LET" -> Call("parse_assign", <<cp>>)
           [] cp.token.type = "TOK_ID" -> Call("parse_call", <<cp>>)
           [] cp.token.type = "TOK_IF" -> Call("parse_if", <<cp>>)
           [] cp.token.type = "TOK_INPUT" -> Call("parse_input", <<cp>>)
           [] cp.token.type = "TOK_OUTPUT" -> Call("parse_output", <<cp>>)
           [] cp.token.type = "TOK_RETURN" -> Call("parse_return", <<cp>>)
           [] cp.token.type = "TOK_WHILE" -> Call("parse_while", <<cp>>)
           [] OTHER -> abort_c(cp, [message |-> "expected statement",
                                    found |-> cp.token.type])

\* The while loop of parse_statements.
StatementsLoop(cp) ==
    IF ~cp.halted /\ cp.token.type = "TOK_SEMICOLON"
    THEN Call("StatementsLoop", <<Call("parse_statement", <<Call("Advance", <<cp>>)>>)>>)
    ELSE cp

\* parse_statements.
parse_statements(cp) ==
    IF cp.halted THEN cp
    ELSE IF cp.token.type = "TOK_CHILLAX" THEN Call("Advance", <<cp>>)
    ELSE Call("StatementsLoop", <<Call("parse_statement", <<cp>>)>>)

\* The while loop of parse_body.
BodyLoop(cp) ==
    IF ~cp.halted /\ IS_TYPE(cp.token.type)
    THEN Call("BodyLoop", <<Call("parse_vardef", <<cp>>)>>)
    ELSE cp

\* parse_body.
parse_body(cp) == Call("parse_statements", <<Call("BodyLoop", <<cp>>)>>)

\* The while loop of parse_subdef over the parameters after the first: the
\* compilation, the parameters so far as [id, type], and *type.
ParamLoop(cp, params, type) ==
    IF ~cp.halted /\ cp.token.type = "TOK_COMMA"
    THEN With([t \in {Call("parse_type", <<Call("Advance", <<cp>>), type>>)} |->
         With([e \in {Call("expect_id", <<t.cp>>)} |->
         Call("ParamLoop", <<e.cp, Append(params, [id |-> e.id, type |-> t.type]), t.type>>)])])
    ELSE [cp |-> cp, params |-> params]

\* close_subroutine as the parser calls it: the table given to ht_free is
\* kept; freeing a table that is not allocated is not defined.
CloseScope(cp) ==
    IF cp.halted THEN cp
    ELSE IF cp.st.table = NULL
    THEN [cp EXCEPT !.st = [@ EXCEPT !.curr_offset = 1, !.table = cp.st.saved_table]]
    ELSE IF Deref(cp.st.heap, cp.st.table) = FREED
    THEN Killed([cp EXCEPT !.frees = Append(@, cp.st.table)], "use after free")
    ELSE [cp EXCEPT !.st = close_subroutine(cp.st),
                    !.frees = Append(@, cp.st.table)]

\* get_variables_width.
get_variables_width(st) == st.curr_offset

\* parse_subdef.  prop is allocated with malloc and its type is never set;
\* the second for loop stores through temp, a null pointer, and reads through
\* var, which the first for loop left null.
parse_subdef(cp) ==
    IF cp.halted THEN cp
    ELSE With([n \in {Call("expect_id", <<cp>>)} |->
         With([t \in {Call("parse_type", <<Call("expect", <<n.cp, "TOK_LPAREN">>), cp.build.value>>)} |->
         With([e \in {Call("expect_id", <<t.cp>>)} |->
         With([p \in {Call("ParamLoop", <<e.cp, <<[id |-> e.id, type |-> t.type]>>, t.type>>)} |->
         With([prop \in {idpropt(cp.build.value, 0, Len(p.params),
                             [i \in 1..Len(p.params) |-> p.params[i].type])} |->
         With([opened \in {IF p.cp.halted THEN p.cp
                       ELSE IF ~TablesLive(p.cp.st) THEN Killed(p.cp, "use after free")
                       ELSE With([r \in {open_subroutine(p.cp.st, n.id, prop,
                                                     TRUE, TRUE, TRUE, TRUE)} |->
                            [p.cp EXCEPT
                                  !.st = r.st,
                                  !.handed = Append(@, [id |-> n.id, prop |-> prop,
                                                        table |-> p.cp.st.table,
                                                        accepted |-> r.ret = "TRUE"])]])} |->
         With([stored \in {IF cp.build.null = "fault" THEN Killed(opened, "fault")
                       ELSE opened} |->
         With([close \in {Call("expect", <<stored, "TOK_RPAREN">>)} |->
         With([arrow \in {~close.halted /\ close.token.type = "TOK_ARROW"} |->
         With([ret \in {IF arrow
                    THEN Call("parse_type", <<Call("Advance", <<close>>), p.params[Len(p.params)].type>>)
                    ELSE [cp |-> close, type |-> TYPE_NONE]} |->
         With([colon \in {Gen(Call("expect", <<ret.cp, "TOK_COLON">>),
                          [gen |-> "init_subroutine_codegen", name |-> n.id])} |->
         With([begun \in {IF colon.halted THEN colon
                      ELSE [colon EXCEPT
                              !.bodies = Append(@, [name |-> n.id,
                                                    params |-> p.params,
                                                    arrow |-> arrow,
                                                    return |-> ret.type,
                                                    st |-> colon.st])]} |->
         With([body \in {Call("parse_body", <<begun>>)} |->
         Call("CloseScope", <<Gen(body, [gen |-> "close_subroutine_codegen",
                                  width |-> get_variables_width(body.st)])>>)])])])])])])])])])])])])])

\* The while loop of parse_program.
SubdefLoop(cp) ==
    IF ~cp.halted /\ cp.token.type = "TOK_ID"
    THEN Call("SubdefLoop", <<Call("parse_subdef", <<cp>>)>>)
    ELSE cp

\* parse_program.
parse_program(cp) ==
    With([name \in {Call("expect_id", <<Call("expect", <<cp, "TOK_PROGRAM">>)>>)} |->
    With([subs \in {Call("SubdefLoop", <<Call("expect", <<Gen(name.cp, [gen |-> "set_class_name",
                                                name |-> name.id]),
                                  "TOK_COLON">>)>>)} |->
    With([main \in {Gen(Call("expect", <<Call("expect", <<subs, "TOK_MAIN">>), "TOK_COLON">>),
                    [gen |-> "init_subroutine_codegen",
                     name |-> <<109, 97, 105, 110>>])} |->
    With([body \in {gen_1(Call("parse_body", <<main>>), "JVM_RETURN")} |->
    Gen(body, [gen |-> "close_subroutine_codegen",
                  width |-> get_variables_width(body.st)])])])])])

\* The call of a parse routine by its name.
Call(routine, args) ==
    CASE routine = "Advance" -> Advance(args[1])
      [] routine = "expect_id" -> expect_id(args[1])
      [] routine = "expect" -> expect(args[1], args[2])
      [] routine = "Lookup" -> Lookup(args[1], args[2])
      [] routine = "Declare" -> Declare(args[1], args[2], args[3])
      [] routine = "CloseScope" -> CloseScope(args[1])
      [] routine = "parse_expr" -> parse_expr(args[1], args[2])
      [] routine = "SimpleLoop" -> SimpleLoop(args[1], args[2])
      [] routine = "parse_simple" -> parse_simple(args[1], args[2])
      [] routine = "TermLoop" -> TermLoop(args[1], args[2])
      [] routine = "parse_term" -> parse_term(args[1], args[2])
      [] routine = "parse_index" -> parse_index(args[1])
      [] routine = "ArgLoop" -> ArgLoop(args[1], args[2])
      [] routine = "parse_arglist" -> parse_arglist(args[1])
      [] routine = "parse_factor" -> parse_factor(args[1], args[2])
      [] routine = "parse_type" -> parse_type(args[1], args[2])
      [] routine = "VardefLoop" -> VardefLoop(args[1], args[2])
      [] routine = "parse_vardef" -> parse_vardef(args[1])
      [] routine = "parse_assign" -> parse_assign(args[1])
      [] routine = "parse_call" -> parse_call(args[1])
      [] routine = "ElifLoop" -> ElifLoop(args[1], args[2])
      [] routine = "parse_if" -> parse_if(args[1])
      [] routine = "parse_input" -> parse_input(args[1])
      [] routine = "OutputItem" -> OutputItem(args[1])
      [] routine = "OutputLoop" -> OutputLoop(args[1])
      [] routine = "parse_output" -> parse_output(args[1])
      [] routine = "parse_return" -> parse_return(args[1])
      [] routine = "parse_while" -> parse_while(args[1])
      [] routine = "parse_statement" -> parse_statement(args[1])
      [] routine = "StatementsLoop" -> StatementsLoop(args[1])
      [] routine = "parse_statements" -> parse_statements(args[1])
      [] routine = "BodyLoop" -> BodyLoop(args[1])
      [] routine = "parse_body" -> parse_body(args[1])
      [] routine = "ParamLoop" -> ParamLoop(args[1], args[2], args[3])
      [] routine = "parse_subdef" -> parse_subdef(args[1])
      [] routine = "SubdefLoop" -> SubdefLoop(args[1])
      [] routine = "parse_program" -> parse_program(args[1])

\* main up to the call of parse_program: init_scanner on the source text,
\* init_symbol_table, init_code_generation.
StartCompilation(text, build) ==
    [sc |-> init_scanner(text),
     token |-> [type |-> "TOK_EOF", value |-> 0],
     st |-> init_symbol_table,
     code |-> <<>>,
     labels |-> 0,
     halted |-> FALSE,
     signal |-> NULL,
     errors |-> 0,
     message |-> NULL,
     fetched |-> 0,
     late |-> 0,
     handed |-> <<>>,
     frees |-> <<>>,
     bodies |-> <<>>,
     reads |-> <<>>,
     open |-> <<>>,
     stmts |-> <<>>,
     build |-> build,
     at |-> "start"]

\* ------------------------------------------------------------------ state

VARIABLES
    ht,          \* hash-table runs: the table under test (NULL before ht_init)
    inserted,    \* hash-table runs: key -> value of the inserts that returned 0
    heap,        \* symbol-table runs: the tables allocated so far, by address
    table,       \* symboltable.c: the active table, <<address>>
    saved_table, \* symboltable.c: the saved table, <<address>> or NULL
    curr_offset, \* symboltable.c: the offset counter
    pc,          \* "run"; "released" after release_symbol_table; "exit" after eprintf
    in_sub,      \* the caller is between open_subroutine and close_subroutine
    gdecl,       \* the declarations that succeeded in the global scope, in order
    ldecl,       \* those of the subroutine scope opened last, in order
    opened,      \* the name and properties of the subroutine opened last
    last,        \* the last call made, what it returned, and whether the
                 \* malloc of its table entry failed
    fails,       \* failed allocations so far
    src_file,    \* scanner.c: the source text and the place fgetc reads next
    ch,          \* scanner.c: the next source character
    column_number, \* scanner.c: the current column number
    position,    \* the source position [line, col] error reports carry
    token,       \* the token the last get_token call filled in
    tokens,      \* scanner runs: the tokens returned so far, in order
    lexerr,      \* scanner runs: the message of a fatal error (NULL if none)
    input,       \* scanner runs: what the source text was built from
    cp,          \* compilations: the compilation record (NULL in other runs)
    mpi          \* my_player.c: the processes of the player and the messages
                 \* between them (NULL in other runs)

vars == <<ht, inserted, heap, table, saved_table, curr_offset, pc, in_sub,
          gdecl, ldecl, opened, last, fails, src_file, ch, column_number,
          position, token, tokens, lexerr, input, cp, mpi>>

scVars == <<src_file, ch, column_number, position, token, tokens, lexerr, input,
            cp, mpi>>

\* No scanner has been initialised: the hash-table and symbol-table runs.
NoScanner ==
    /\ src_file = NULL
    /\ ch = 0
    /\ column_number = 0
    /\ position = [line |-> 0, col |-> 0]
    /\ token = NULL
    /\ tokens = <<>>
    /\ lexerr = NULL
    /\ input = NULL
    /\ cp = NULL
    /\ mpi = NULL

htVars == <<ht, inserted>>

stVars == <<heap, table, saved_table, curr_offset, pc, in_sub, gdecl, ldecl, opened>>

\* ------------------------------------------------- hash-table runs: inputs

\* Identifiers: "a" and "n" share bucket 6 of a 13-bucket table and part in a
\* 31-bucket one; "aa" and "an" are longer keys.
Keys == {<<97>>, <<110>>, <<98>>, <<99>>, <<97, 97>>, <<97, 110>>}

\* The values handed to ht_insert: two IDPropt records.
Values == {idpropt(TYPE_BOOLEAN, 0, 0, NULL), idpropt(TYPE_INTEGER, 0, 0, NULL)}

\* The load factors a table is created with: 0.75 is the symbol table's.
LoadFactors == {<<3, 4>>, <<1, 4>>, <<1, 100>>}

\* The outcomes of a malloc call: it may fail only if the call is reached and
\* the bound on failures is not used up.
Outcomes(reached, budget) == IF reached /\ budget > 0 THEN BOOLEAN ELSE {TRUE}

Failed(okFirst, okSecond) ==
    (IF okFirst THEN 0 ELSE 1) + (IF okSecond THEN 0 ELSE 1)

\* ------------------------------------------------ hash-table runs: actions

InitHashTab ==
    /\ ht = NULL
    /\ inserted = <<>>
    /\ last = [op |-> "none"]
    /\ fails = 0
    /\ heap = <<>>
    /\ table = NULL
    /\ saved_table = NULL
    /\ curr_offset = 0
    /\ pc = "run"
    /\ in_sub = FALSE
    /\ gdecl = <<>>
    /\ ldecl = <<>>
    /\ opened = NULL
    /\ NoScanner

\* ht_init(loadfactor, shift_hash, key_strcmp), once.
HtInit ==
    /\ ht = NULL
    /\ last.op = "none"
    /\ \E lf \in LoadFactors, okHt \in Outcomes(TRUE, MaxFail - fails) :
       \E okTable \in Outcomes(okHt, MaxFail - fails) :
         /\ ht' = ht_init(lf, okHt, okTable)
         /\ fails' = fails + Failed(okHt, okTable)
    /\ last' = [op |-> "ht_init"]
    /\ UNCHANGED inserted
    /\ UNCHANGED stVars
    /\ UNCHANGED scVars

\* ht_insert(ht, key, value) on the table created.
HtInsert ==
    /\ ht # NULL
    /\ \E key \in Keys, value \in Values :
       \E okTable \in Outcomes(InsertRehashes(ht, key), MaxFail - fails) :
       \E okEntry \in Outcomes(InsertAllocates(ht, key),
                               MaxFail - fails - Failed(okTable, TRUE)) :
       \E r \in {ht_insert(ht, key, value, okTable, okEntry)} :
            /\ ht' = r.ht
            /\ fails' = fails + Failed(okTable, okEntry)
            /\ last' = [op |-> "ht_insert", ret |-> r.ret]
            /\ inserted' = IF r.ret = 0 THEN (key :> value) @@ inserted ELSE inserted
    /\ UNCHANGED stVars
    /\ UNCHANGED scVars

NextHashTab == HtInit \/ HtInsert

SpecHashTab == InitHashTab /\ [][NextHashTab]_vars

\* ------------------------------------------------- hash-table lookups

\* Keys inserted into a table before it is searched.
MaxSearchKeys == 2

\* The tables reached from a new one by at most n inserts.
RECURSIVE TablesWith(_)
TablesWith(n) ==
    IF n = 0 THEN {ht_init(SymTabLoadFactor, TRUE, TRUE)}
    ELSE LET prev == TablesWith(n - 1)
         IN prev \cup {ht_insert(t, key, idpropt(TYPE_INTEGER, 0, 0, NULL),
                                  TRUE, TRUE).ht : t \in prev, key \in Keys}

\* A table pointer handed to ht_search: NULL, or a table with some entries.
InitSearch ==
    /\ ht \in {NULL} \cup TablesWith(MaxSearchKeys)
    /\ inserted = <<>>
    /\ last = [op |-> "none"]
    /\ fails = 0
    /\ heap = <<>>
    /\ table = NULL
    /\ saved_table = NULL
    /\ curr_offset = 0
    /\ pc = "run"
    /\ in_sub = FALSE
    /\ gdecl = <<>>
    /\ ldecl = <<>>
    /\ opened = NULL
    /\ NoScanner

\* ht_search(ht, key), the key being NULL or an identifier.  The function has
\* no assignment to the table or to anything it points to.
HtSearch ==
    /\ last.op = "none"
    /\ \E key \in Keys \cup {NULL} :
       \E r \in {ht_search_calls(ht, key)} :
           last' = [op |-> "ht_search", key |-> key, ret |-> r.ret,
                    hash_calls |-> r.hash_calls, cmp_calls |-> r.cmp_calls]
    /\ UNCHANGED <<ht, inserted, fails>>
    /\ UNCHANGED stVars
    /\ UNCHANGED scVars

NextSearch == HtSearch

SpecSearch == InitSearch /\ [][NextSearch]_vars

\* ------------------------------------------------------- scanner runs

\* The static variables of scanner.c and `position` as the record the
\* operators work on.
Sc == [src_file |-> src_file, ch |-> ch, column_number |-> column_number,
       position |-> position]

SetSc(sc) ==
    /\ src_file' = sc.src_file
    /\ ch' = sc.ch
    /\ column_number' = sc.column_number
    /\ position' = sc.position

\* The state main reaches after init_scanner on a file holding `text`, no
\* table being in use.
ScannerStarts(text, in) ==
    /\ src_file = init_scanner(text).src_file
    /\ ch = init_scanner(text).ch
    /\ column_number = init_scanner(text).column_number
    /\ position = init_scanner(text).position
    /\ token = NULL
    /\ tokens = <<>>
    /\ lexerr = NULL
    /\ input = in
    /\ cp = NULL
    /\ mpi = NULL
    /\ ht = NULL
    /\ inserted = <<>>
    /\ last = [op |-> "init_scanner"]
    /\ fails = 0
    /\ heap = <<>>
    /\ table = NULL
    /\ saved_table = NULL
    /\ curr_offset = 0
    /\ pc = "run"
    /\ in_sub = FALSE
    /\ gdecl = <<>>
    /\ ldecl = <<>>
    /\ opened = NULL

\* The scan is over: a fatal error ended the process, or the end-of-file token
\* has been returned.
ScanDone ==
    \/ lexerr # NULL
    \/ tokens # <<>> /\ tokens[Len(tokens)].type = "TOK_EOF"

\* get_token(&token), called until the end-of-file token or a fatal error.
\* `last` keeps what the call did besides: whether the number it accumulated
\* wrapped around, how many elements of the lexeme buffer it wrote, and how
\* many characters it stored outside the string buffer.
GetToken ==
    /\ src_file # NULL
    /\ ~ScanDone
    /\ \E r \in {get_token(Sc)} :
         /\ SetSc(r.sc)
         /\ lexerr' = r.err
         /\ token' = IF r.err = NULL THEN r.token ELSE token
         /\ tokens' = IF r.err = NULL THEN Append(tokens, r.token) ELSE tokens
         /\ last' = [op |-> "get_token",
                      wrapped |-> IF "wrapped" \in DOMAIN r THEN r.wrapped ELSE FALSE,
                      written |-> IF "written" \in DOMAIN r THEN r.written ELSE 0,
                      outside |-> IF "outside" \in DOMAIN r THEN r.outside ELSE 0]
    /\ UNCHANGED <<input, fails, cp, mpi>>
    /\ UNCHANGED htVars
    /\ UNCHANGED stVars

NextScanner == GetToken

\* The get_token calls made so far.
Calls == Len(tokens) + (IF lexerr # NULL THEN 1 ELSE 0)

\* What at most n get_token calls yield on a scanner: the tokens returned and
\* the fatal error, if any, that ended the scan.
RECURSIVE ScanFrom(_, _, _)
ScanFrom(sc, n, sofar) ==
    IF n = 0 THEN [tokens |-> sofar, err |-> NULL]
    ELSE LET r == get_token(sc)
         IN IF r.err # NULL THEN [tokens |-> sofar, err |-> r.err]
            ELSE IF r.token.type = "TOK_EOF"
            THEN [tokens |-> Append(sofar, r.token), err |-> NULL]
            ELSE ScanFrom(r.sc, n - 1, Append(sofar, r.token))

Scan(text, n) == ScanFrom(init_scanner(text), n, <<>>)

\* The text from its i-th character on.
Suffix(text, i) == SubSeq(text, i, Len(text))

\* ------------------------------------------- scanner runs: valid lexemes

\* Lexemes in one source text, besides the text "let x = 3 + 4".
MaxLexemes == 3

\* Valid lexemes with the token each stands for: let, x, =, 3, +, 4, >=, "hi".
Lexemes ==
    <<[text |-> <<108, 101, 116>>, class |-> "word",
       token |-> [type |-> "TOK_LET", lexeme |-> <<>>]],
      [text |-> <<120>>, class |-> "word",
       token |-> [type |-> "TOK_ID", lexeme |-> <<120>>]],
      [text |-> <<61>>, class |-> "op", token |-> [type |-> "TOK_EQ"]],
      [text |-> <<51>>, class |-> "number",
       token |-> [type |-> "TOK_NUM", value |-> 3]],
      [text |-> <<43>>, class |-> "op", token |-> [type |-> "TOK_PLUS"]],
      [text |-> <<52>>, class |-> "number",
       token |-> [type |-> "TOK_NUM", value |-> 4]],
      [text |-> <<62, 61>>, class |-> "op", token |-> [type |-> "TOK_GE"]],
      [text |-> <<34, 104, 105, 34>>, class |-> "string",
       token |-> [type |-> "TOK_STR", string |-> <<104, 105>>]]>>

\* What stands between two lexemes: a space, a newline, a comment, nothing.
Separators == <<(<<32>>), (<<10>>), (<<123, 99, 125>>), (<<>>)>>

\* Two lexemes are two lexemes still when nothing stands between them.
Separate(a, b) ==
    ~(Lexemes[a].class \in {"word", "number"} /\ Lexemes[b].class \in {"word", "number"})

\* "let x = 3 + 4" as lexemes joined by spaces.
LetExample == [lexemes |-> <<1, 2, 3, 4, 5, 6>>, sep |-> 1]

LexemeInputs ==
    {LetExample} \cup
    {in \in [lexemes : UNION {[1..k -> 1..Len(Lexemes)] : k \in 0..MaxLexemes},
              sep : 1..Len(Separators)] :
        Separators[in.sep] = <<>> =>
            \A i \in 1..(Len(in.lexemes) - 1) :
                Separate(in.lexemes[i], in.lexemes[i + 1])}

\* The source text of an input: its lexemes with the separator between them.
RECURSIVE JoinLexemes(_, _)
JoinLexemes(lexemes, sep) ==
    IF lexemes = <<>> THEN <<>>
    ELSE IF Len(lexemes) = 1 THEN Lexemes[lexemes[1]].text
    ELSE Lexemes[lexemes[1]].text \o Separators[sep]
             \o JoinLexemes(Tail(lexemes), sep)

InitLexemes ==
    \E in \in LexemeInputs : ScannerStarts(JoinLexemes(in.lexemes, in.sep), in)

SpecLexemes == InitLexemes /\ [][NextScanner]_vars

\* ----------------------------------------------- scanner runs: comments

\* The texts of at most n characters over an alphabet.
Texts(alphabet, n) == UNION {[1..k -> alphabet] : k \in 0..n}

\* Characters in a source text of braces, a letter, a space and a newline.
MaxCommentLen == 5

CommentTexts == Texts({123, 125, 97, 32, 10}, MaxCommentLen)

InitComments == \E text \in CommentTexts : ScannerStarts(text, NULL)

SpecComments == InitComments /\ [][NextScanner]_vars

\* ------------------------------------------------ scanner runs: numbers

\* Digits after the first eight of a literal near INT_MAX.
MaxTailDigits == 2

\* "21474836", the first eight digits of INT_MAX.
IntMaxHead == <<50, 49, 52, 55, 52, 56, 51, 54>>

\* Decimal literals: every literal of at most MaxTailDigits digits, alone (a
\* small number) or after "21474836" (a number near INT_MAX), and each of
\* these after a leading zero.
NumberTexts ==
    {lead \o head \o tail : lead \in {<<>>, <<48>>},
                            head \in {<<>>, IntMaxHead},
                            tail \in Texts(48..57, MaxTailDigits)} \ {<<>>}

InitNumbers == \E text \in NumberTexts : ScannerStarts(text, NULL)

SpecNumbers == InitNumbers /\ [][NextScanner]_vars

\* ------------------------------------------------ scanner runs: strings

\* Characters after the opening quote of a string literal.
MaxStringLen == 4

\* An opening quote followed by letters a and n, quotes, backslashes and tabs
\* (a tab is not printable).
StringTexts == {<<34>> \o body : body \in Texts({97, 110, 34, 92, 9}, MaxStringLen)}

InitStrings == \E text \in StringTexts : ScannerStarts(text, NULL)

SpecStrings == InitStrings /\ [][NextScanner]_vars

\* ------------------------------------------- scanner runs: long strings

\* How far below MAX_INIT_STR_LEN the run of plain characters starts.
MaxBelow == 5

\* Plain characters and escape sequences after the run of plain characters.
MaxTailLen == 2

\* n letters a.
Plain(n) == [i \in 1..n |-> 97]

RECURSIVE Tails(_)
Tails(n) ==
    IF n = 0 THEN {<<>>}
    ELSE Tails(n - 1)
         \cup {tail \o item : tail \in Tails(n - 1), item \in {<<97>>, <<92, 110>>}}

\* An opening quote, a run of letters a that ends near the size the buffer
\* starts with or near twice that size, then letters a and escapes \n, and
\* the closing quote or the end of the file.
LongStringTexts ==
    {<<34>> \o Plain(first * MAX_INIT_STR_LEN - below) \o tail \o close :
        first \in {1}, below \in 0..MaxBelow, tail \in Tails(MaxTailLen),
        close \in {<<34>>, <<>>}}

InitLongStrings == \E text \in LongStringTexts : ScannerStarts(text, NULL)

SpecLongStrings == InitLongStrings /\ [][NextScanner]_vars

\* ---------------------------------------------- scanner runs: operators

\* Characters of a text of operators.
MaxOpLen == 3

\* Texts over > < / - = & | . and the letter a.
OpTexts == Texts({62, 60, 47, 45, 61, 38, 124, 46, 97}, MaxOpLen)

InitOperators == \E text \in OpTexts : ScannerStarts(text, NULL)

SpecOperators == InitOperators /\ [][NextScanner]_vars

\* -------------------------------------------------- scanner runs: words

\* Letters of a short word.
MaxWordLen == 3

\* How far below and above MAX_ID_LEN the long words go.
MaxExtra == 2

\* The characters process_word takes into a word.
IsWordChar(c) == isalpha(c) \/ c = 95 \/ isdigit(c)

\* The words of one to MaxWordLen letters out of i, n, t and f.
ShortWords == Texts({105, 110, 116, 102}, MaxWordLen) \ {<<>>}

ReservedWords == {reserved[k].word : k \in DOMAIN reserved}

\* The reserved words with the last letter left out, with an s added, and
\* with a capital first letter.
NearReserved ==
    UNION {{SubSeq(w, 1, Len(w) - 1), Append(w, 115), <<w[1] - 32>> \o Tail(w)}
            : w \in ReservedWords}

\* Words of about MAX_ID_LEN characters: an a, and then only a, _ or 9.
LongWords ==
    {<<97>> \o [i \in 1..(n - 1) |-> c] :
        n \in (MAX_ID_LEN - MaxExtra)..(MAX_ID_LEN + MaxExtra),
        c \in {97, 95, 57}}

WordTexts == ShortWords \cup ReservedWords \cup NearReserved \cup LongWords

InitWords == \E text \in WordTexts : ScannerStarts(text, NULL)

SpecWords == InitWords /\ [][NextScanner]_vars

\* --------------------------------------------- scanner runs: characters

\* Characters of a text read one by one.
MaxCharsLen == 4

\* Texts of letters, spaces and newlines.
CharTexts == Texts({97, 32, 10}, MaxCharsLen)

InitChars == \E text \in CharTexts : ScannerStarts(text, NULL)

\* next_char(), as the scanner calls it while there is a character to go on
\* from.
NextChar ==
    /\ src_file # NULL
    /\ ch # EOF
    /\ SetSc(next_char(Sc))
    /\ last' = [op |-> "next_char"]
    /\ UNCHANGED <<token, tokens, lexerr, input, fails, cp, mpi>>
    /\ UNCHANGED htVars
    /\ UNCHANGED stVars

NextChars == NextChar

SpecChars == InitChars /\ [][NextChars]_vars

\* --------------------------------------------------------- compilations

\* The characters of each lexeme the source texts are written with.
Spelling ==
    ("program" :> <<112, 114, 111, 103, 114, 97, 109>>)
    @@ ("main" :> <<109, 97, 105, 110>>)
    @@ ("let" :> <<108, 101, 116>>)
    @@ ("output" :> <<111, 117, 116, 112, 117, 116>>)
    @@ ("end" :> <<101, 110, 100>>)
    @@ ("int" :> <<105, 110, 116>>)
    @@ ("bool" :> <<98, 111, 111, 108>>)
    @@ ("array" :> <<97, 114, 114, 97, 121>>)
    @@ ("chillax" :> <<99, 104, 105, 108, 108, 97, 120>>)
    @@ ("if" :> <<105, 102>>)
    @@ ("elif" :> <<101, 108, 105, 102>>)
    @@ ("else" :> <<101, 108, 115, 101>>)
    @@ ("while" :> <<119, 104, 105, 108, 101>>)
    @@ ("input" :> <<105, 110, 112, 117, 116>>)
    @@ ("return" :> <<114, 101, 116, 117, 114, 110>>)
    @@ ("not" :> <<110, 111, 116>>)
    @@ ("true" :> <<116, 114, 117, 101>>)
    @@ ("false" :> <<102, 97, 108, 115, 101>>)
    @@ ("and" :> <<97, 110, 100>>)
    @@ ("or" :> <<111, 114>>)
    @@ ("rem" :> <<114, 101, 109>>)
    @@ ("P" :> <<80>>)
    @@ ("x" :> <<120>>)
    @@ ("y" :> <<121>>)
    @@ ("b" :> <<98>>)
    @@ ("a" :> <<97>>)
    @@ ("f" :> <<102>>)
    @@ ("g" :> <<103>>)
    @@ ("1" :> <<49>>)
    @@ ("2" :> <<50>>)
    @@ ("5" :> <<53>>)
    @@ (":" :> <<58>>)
    @@ (";" :> <<59>>)
    @@ ("," :> <<44>>)
    @@ ("=" :> <<61>>)
    @@ ("+" :> <<43>>)
    @@ ("-" :> <<45>>)
    @@ ("*" :> <<42>>)
    @@ ("/" :> <<47>>)
    @@ ("<" :> <<60>>)
    @@ ("(" :> <<40>>)
    @@ (")" :> <<41>>)
    @@ ("[" :> <<91>>)
    @@ ("]" :> <<93>>)
    @@ (".." :> <<46, 46>>)
    @@ ("->" :> <<45, 62>>)
    @@ ("#" :> <<35>>)
    @@ (" " :> <<32>>)
    @@ ("\"x=\"" :> <<34, 120, 61, 34>>)
    @@ ("\"x" :> <<34, 120>>)
    @@ ("{" :> <<123>>)
    @@ ("99999999999" :> <<57, 57, 57, 57, 57, 57, 57, 57, 57, 57, 57>>)

\* The source text of a sequence of lexemes, written one after the other.
RECURSIVE Text(_)
Text(lexemes) ==
    IF lexemes = <<>> THEN <<>>
    ELSE Spelling[Head(lexemes)] \o Text(Tail(lexemes))

\* The lexemes with a space after each.
RECURSIVE Spaced(_)
Spaced(lexemes) ==
    IF lexemes = <<>> THEN <<>>
    ELSE <<Head(lexemes), " ">> \o Spaced(Tail(lexemes))

\* What the builds do where the language leaves it open.
Builds == [null : {"fault", "reads"}, value : {TYPE_NONE, TYPE_CALLABLE + TYPE_INTEGER}]

\* The variables of the other runs, which a compilation leaves alone.
idleVars == <<ht, inserted, heap, table, saved_table, curr_offset, pc, in_sub,
              gdecl, ldecl, opened, last, fails, src_file, ch, column_number,
              position, token, tokens, lexerr, input, mpi>>

\* main has called init_scanner, init_symbol_table and init_code_generation on
\* the source text of an input.
CompilationStarts(in, build) ==
    /\ cp = StartCompilation(Text(in.lexemes), build)
    /\ mpi = NULL
    /\ input = in
    /\ src_file = NULL
    /\ ch = 0
    /\ column_number = 0
    /\ position = [line |-> 0, col |-> 0]
    /\ token = NULL
    /\ tokens = <<>>
    /\ lexerr = NULL
    /\ ht = NULL
    /\ inserted = <<>>
    /\ last = [op |-> "init_scanner"]
    /\ fails = 0
    /\ heap = <<>>
    /\ table = NULL
    /\ saved_table = NULL
    /\ curr_offset = 0
    /\ pc = "run"
    /\ in_sub = FALSE
    /\ gdecl = <<>>
    /\ ldecl = <<>>
    /\ opened = NULL

\* Where main is after a call: "failed" when the process ended in it.
After(c, place) == [c EXCEPT !.at = IF c.halted THEN "failed" ELSE place]

\* get_token(&token) of main.
GetFirstToken ==
    /\ cp # NULL
    /\ cp.at = "start"
    /\ cp' = After(Advance(cp), "token")
    /\ UNCHANGED idleVars

\* parse_program() of main.
ParseProgram ==
    /\ cp # NULL
    /\ cp.at = "token"
    /\ cp' = After(Call("parse_program", <<cp>>), "parsed")
    /\ UNCHANGED idleVars

\* The end of main: release_symbol_table().
Teardown ==
    /\ cp # NULL
    /\ cp.at = "parsed"
    /\ cp' = [cp EXCEPT !.st = release_symbol_table(cp.st),
                        !.frees = IF cp.st.saved_table # NULL
                                  THEN Append(@, cp.st.saved_table)
                                  ELSE @,
                        !.at = "done"]
    /\ UNCHANGED idleVars

NextCompile == GetFirstToken \/ ParseProgram \/ Teardown

\* The head of every program of the runs: program P : main :
ProgramHead == <<"program", "P", ":", "main", ":">>

\* A program whose main body is the given lexemes, a space after each lexeme.
MainProgram(body) == [lexemes |-> Spaced(ProgramHead \o body)]

\* A program with subroutine definitions before main.
SubProgram(subs, body) ==
    [lexemes |-> Spaced(<<"program", "P", ":">> \o subs \o <<"main", ":">> \o body)]

\* The program of the specification's example with x declared in it.
ExampleDeclared ==
    MainProgram(<<"int", "x", ";", "let", "x", "=", "1", "+", "2", ";", "output",
                  "(", "\"x=\"", "..", "x", ")", "end">>)

\* The example as it is written, x not being declared.
ExampleProgram ==
    [lexemes |-> <<"program", " ", "P", ":", " ", "main", ":", " ", "let", " ",
                   "x", " ", "=", " ", "1", " ", "+", " ", "2", ";", " ",
                   "output", "(", "\"x=\"", "..", "x", ")", " ", "end">>]

\* bool b; let b = 1 + 2
BoolGetsSum == MainProgram(<<"bool", "b", ";", "let", "b", "=", "1", "+", "2">>)

\* int x; let x = 1 + true
SumOfIntAndBool == MainProgram(<<"int", "x", ";", "let", "x", "=", "1", "+", "true">>)

\* int x; let x = true
IntGetsBool == MainProgram(<<"int", "x", ";", "let", "x", "=", "true">>)

\* int x; let x = 1
IntGetsInt == MainProgram(<<"int", "x", ";", "let", "x", "=", "1">>)

\* int x; int x; let x = 1
Redeclared == MainProgram(<<"int", "x", ";", "int", "x", ";", "let", "x", "=", "1">>)

\* int x, x; chillax
RedeclaredInList == MainProgram(<<"int", "x", ",", "x", ";", "chillax">>)

\* let y = 1, y not declared
UndeclaredTarget == MainProgram(<<"let", "y", "=", "1">>)

\* input(y), y not declared
UndeclaredInput == MainProgram(<<"input", "(", "y", ")">>)

\* int x; let x = y, y not declared
UndeclaredFactor == MainProgram(<<"int", "x", ";", "let", "x", "=", "y">>)

\* int x; input(x)
InputDeclared == MainProgram(<<"int", "x", ";", "input", "(", "x", ")">>)

\* int x; chillax
OneVariable == MainProgram(<<"int", "x", ";", "chillax">>)

\* chillax
EmptyMain == MainProgram(<<"chillax">>)

\* f(int a, bool b) -> int: chillax
FunctionOfTwo ==
    SubProgram(<<"f", "(", "int", "a", ",", "bool", "b", ")", "->", "int", ":",
                 "chillax">>,
               <<"chillax">>)

\* f(int a): chillax
ProcedureOfOne ==
    SubProgram(<<"f", "(", "int", "a", ")", ":", "chillax">>, <<"chillax">>)

\* f(int a): chillax  g(bool b): chillax
TwoProcedures ==
    SubProgram(<<"f", "(", "int", "a", ")", ":", "chillax",
                 "g", "(", "bool", "b", ")", ":", "chillax">>,
               <<"chillax">>)

\* f(int a): chillax  f(int a): chillax
SubroutineRedeclared ==
    SubProgram(<<"f", "(", "int", "a", ")", ":", "chillax",
                 "f", "(", "int", "a", ")", ":", "chillax">>,
               <<"chillax">>)

\* f(int a) -> int: let a = f(a)
RecursiveFunction ==
    SubProgram(<<"f", "(", "int", "a", ")", "->", "int", ":",
                 "let", "a", "=", "f", "(", "a", ")">>,
               <<"chillax">>)

\* int x; x(1)
VariableCalled == MainProgram(<<"int", "x", ";", "x", "(", "1", ")">>)

\* y(1), y not declared
UndeclaredCalled == MainProgram(<<"y", "(", "1", ")">>)

\* int x; let x = x(1)
VariableCalledInFactor ==
    MainProgram(<<"int", "x", ";", "let", "x", "=", "x", "(", "1", ")">>)

\* int x; let x = array 5
ScalarGetsArray == MainProgram(<<"int", "x", ";", "let", "x", "=", "array", "5">>)

\* int array a; let a = array 5
IntArrayAllocated ==
    MainProgram(<<"int", "array", "a", ";", "let", "a", "=", "array", "5">>)

\* bool array a; let a = array 5
BoolArrayAllocated ==
    MainProgram(<<"bool", "array", "a", ";", "let", "a", "=", "array", "5">>)

\* int x; while x < 5: let x = x + 1 end
WhileLoop ==
    MainProgram(<<"int", "x", ";", "while", "x", "<", "5", ":", "let", "x", "=",
                  "x", "+", "1", "end">>)

\* int x; if x < 1: chillax elif x < 2: chillax else: chillax end
IfElifElse ==
    MainProgram(<<"int", "x", ";", "if", "x", "<", "1", ":", "chillax", "elif",
                  "x", "<", "2", ":", "chillax", "else", ":", "chillax", "end">>)

\* int x; while x < 5: if x < 1: while x < 2: chillax end elif x < 2:
\* chillax end; let x = 1 end
NestedStatements ==
    MainProgram(<<"int", "x", ";", "while", "x", "<", "5", ":",
                  "if", "x", "<", "1", ":", "while", "x", "<", "2", ":", "chillax",
                  "end", "elif", "x", "<", "2", ":", "chillax", "end", ";",
                  "let", "x", "=", "1", "end">>)

\* int array a; let a[1] = a[2]; return
ArrayElements ==
    MainProgram(<<"int", "array", "a", ";", "let", "a", "[", "1", "]", "=",
                  "a", "[", "2", "]", ";", "return">>)

\* int x; let x[1] = 2
ScalarIndexed ==
    MainProgram(<<"int", "x", ";", "let", "x", "[", "1", "]", "=", "2">>)

\* int array a; let a = 1
ArrayUnindexed == MainProgram(<<"int", "array", "a", ";", "let", "a", "=", "1">>)

\* f(a b): chillax, the parameter having a name where its type is to be
UntypedParameter ==
    SubProgram(<<"f", "(", "a", "b", ")", ":", "chillax">>, <<"chillax">>)

\* a main body that starts with '='
StatementStartsWithEq == MainProgram(<<"=", "1">>)

\* output("x=" 1)
StringThenNumber == MainProgram(<<"output", "(", "\"x=\"", "1", ")">>)

Programs ==
    {ExampleDeclared, ExampleProgram, BoolGetsSum, SumOfIntAndBool, IntGetsBool,
     IntGetsInt, Redeclared, RedeclaredInList, UndeclaredTarget, UndeclaredInput,
     UndeclaredFactor, InputDeclared, OneVariable, EmptyMain, FunctionOfTwo,
     ProcedureOfOne, TwoProcedures, SubroutineRedeclared, RecursiveFunction,
     VariableCalled, UndeclaredCalled, VariableCalledInFactor, ScalarGetsArray,
     IntArrayAllocated, BoolArrayAllocated, WhileLoop, IfElifElse, NestedStatements, ArrayElements,
     ScalarIndexed, ArrayUnindexed, UntypedParameter, StatementStartsWithEq,
     StringThenNumber}

InitCompile == \E in \in Programs, build \in Builds : CompilationStarts(in, build)

SpecCompile == InitCompile /\ [][NextCompile]_vars

\* ------------------------------------------------ compilations: expressions

\* The operators of one expression at most.
MaxOps == 2

\* Expressions as trees: a leaf, a unary operator on one operand, a binary
\* operator on two.
Leaf(lexeme) == [k |-> "leaf", lexeme |-> lexeme]

Unary(op, a) == [k |-> "unary", op |-> op, a |-> a]

Binary(op, l, r) == [k |-> "binary", op |-> op, l |-> l, r |-> r]

Leaves == {Leaf("x"), Leaf("1")}

UnaryOps == {"-", "not"}

BinaryOps == {"<", "+", "-", "*", "and"}

\* The trees of exactly n operators.
RECURSIVE ExprOfSize(_)
ExprOfSize(n) ==
    IF n = 0 THEN Leaves
    ELSE {Unary(op, a) : op \in UnaryOps, a \in ExprOfSize(n - 1)}
         \cup UNION {{Binary(op, l, r) : op \in BinaryOps, l \in ExprOfSize(i),
                                         r \in ExprOfSize(n - 1 - i)} :
                     i \in 0..(n - 1)}

Expressions == UNION {ExprOfSize(n) : n \in 0..MaxOps}

\* The level of the grammar a tree is a phrase of: 0 expr (one relational
\* operator), 1 simple (additive operators, a leading minus), 2 term
\* (multiplicative operators), 3 factor.
Level(e) ==
    IF e.k = "leaf" THEN 3
    ELSE IF e.k = "unary" THEN (IF e.op = "-" THEN 1 ELSE 3)
    ELSE IF e.op = "<" THEN 0
    ELSE IF e.op \in {"+", "-"} THEN 1
    ELSE 2

\* The lexemes of a tree where a phrase of level `need` or above is asked for,
\* parentheses being written only where the tree is of a lower level.
RECURSIVE Written(_, _)
Written(e, need) ==
    IF Level(e) < need THEN <<"(">> \o Written(e, 0) \o <<")">>
    ELSE IF e.k = "leaf" THEN <<e.lexeme>>
    ELSE IF e.k = "unary"
    THEN <<e.op>> \o Written(e.a, IF e.op = "-" THEN 2 ELSE 3)
    ELSE Written(e.l, IF Level(e) = 0 THEN 1 ELSE Level(e))
         \o <<e.op>> \o Written(e.r, Level(e) + 1)

\* int x; output(e)
OutputOf(e) ==
    [lexemes |-> Spaced(ProgramHead \o <<"int", "x", ";", "output", "(">>
                        \o Written(e, 0) \o <<")">>),
     ast |-> e]

\* The builds of these runs: no null pointer is met in them.
ExprBuilds == {build \in Builds : build.null = "fault"}

InitExpressions ==
    \E e \in Expressions, build \in ExprBuilds : CompilationStarts(OutputOf(e), build)

SpecExpressions == InitExpressions /\ [][NextCompile]_vars

\* -------------------------------------------- compilations: faulty programs

\* The lexemes that follow the start of a statement in these runs.
MaxFaultLexemes == 2

\* Lexemes of every kind: parts of statements, a character no token starts
\* with, a string and a comment that are not closed, a number above INT_MAX.
FaultLexemes == {"x", "=", "1", ";", "(", ")", "#", "\"x", "{", "99999999999"}

\* The sequences of at most n of these lexemes.
RECURSIVE LexemeSeqs(_)
LexemeSeqs(n) ==
    IF n = 0 THEN {<<>>}
    ELSE LexemeSeqs(n - 1)
         \cup {Append(q, l) : q \in {p \in LexemeSeqs(n - 1) : Len(p) = n - 1},
                              l \in FaultLexemes}

\* What the sequences are put after: nothing at all, or the program head and
\* a declaration of x, followed by the start of a statement.
FaultStarts ==
    {<<>>}
    \cup {ProgramHead \o <<"int", "x", ";">> \o start :
            start \in {<<>>, <<"let", "x", "=">>, <<"output", "(">>, <<"x", "(">>,
                       <<"input", "(">>, <<"if">>}}

FaultyPrograms ==
    {[lexemes |-> Spaced(start \o q)] :
        start \in FaultStarts, q \in LexemeSeqs(MaxFaultLexemes)}

InitFaulty ==
    \E in \in FaultyPrograms, build \in Builds : CompilationStarts(in, build)

SpecFaulty == InitFaulty /\ [][NextCompile]_vars

\* ----------------------------------------------- symbol-table runs: inputs

\* Identifiers "a", "n" (one bucket of a 13-bucket table) and "f".
Names == {<<97>>, <<110>>, <<102>>}

\* The types parse_vardef declares with: a scalar and an array.
VarTypes == {TYPE_INTEGER, TYPE_BOOLEAN + TYPE_ARRAY}

\* The properties a subroutine is opened with: a procedure and a function.
SubProps ==
    {idpropt(TYPE_CALLABLE, 0, 1, <<TYPE_INTEGER>>),
     idpropt(TYPE_CALLABLE + TYPE_INTEGER, 0, 2, <<TYPE_BOOLEAN, TYPE_INTEGER>>)}

\* The static variables and the heap as the record the operators work on.
St == [heap |-> heap, table |-> table, saved_table |-> saved_table,
       curr_offset |-> curr_offset]

SetSt(st) ==
    /\ heap' = st.heap
    /\ table' = st.table
    /\ saved_table' = st.saved_table
    /\ curr_offset' = st.curr_offset

\* ---------------------------------------------- symbol-table runs: actions

\* The state main reaches after init_symbol_table.
InitSymTab ==
    /\ ht = NULL
    /\ inserted = <<>>
    /\ last = [op |-> "init_symbol_table"]
    /\ fails = 0
    /\ heap = init_symbol_table.heap
    /\ table = init_symbol_table.table
    /\ saved_table = init_symbol_table.saved_table
    /\ curr_offset = init_symbol_table.curr_offset
    /\ pc = "run"
    /\ in_sub = FALSE
    /\ gdecl = <<>>
    /\ ldecl = <<>>
    /\ opened = NULL
    /\ NoScanner

\* insert_name(id, idpropt(type, 0, 0, NULL)), as parse_vardef calls it.
InsertName ==
    /\ pc = "run"
    /\ \E id \in Names, type \in VarTypes :
       \E reached \in {find_name(St, id) = NULL} :
       \E okTable \in Outcomes(reached /\ InsertRehashes(Deref(heap, table), id),
                               MaxFail - fails) :
       \E okEntry \in Outcomes(reached, MaxFail - fails - Failed(okTable, TRUE)) :
       \E r \in {insert_name(St, id, idpropt(type, 0, 0, NULL), okTable, okEntry)} :
         LET d == [id |-> id, type |-> type]
         IN /\ SetSt(r.st)
            /\ fails' = fails + Failed(okTable, okEntry)
            /\ last' = [op |-> "insert_name", id |-> id, ret |-> r.ret,
                         nomem |-> ~okEntry]
            /\ gdecl' = IF r.ret /\ ~in_sub THEN Append(gdecl, d) ELSE gdecl
            /\ ldecl' = IF r.ret /\ in_sub THEN Append(ldecl, d) ELSE ldecl
    /\ UNCHANGED <<pc, in_sub, opened>>
    /\ UNCHANGED htVars
    /\ UNCHANGED scVars

\* open_subroutine(id, prop), outside any subroutine.
OpenSubroutine ==
    /\ pc = "run"
    /\ ~in_sub
    /\ \E id \in Names, prop \in SubProps :
       \E reached \in {find_name(St, id) = NULL} :
       \E okTable \in Outcomes(reached /\ InsertRehashes(Deref(heap, table), id),
                               MaxFail - fails) :
       \E okEntry \in Outcomes(reached, MaxFail - fails - Failed(okTable, TRUE)) :
       \E okHt \in Outcomes(reached /\ okEntry,
                            MaxFail - fails - Failed(okTable, okEntry)) :
       \E okBuckets \in Outcomes(reached /\ okEntry /\ okHt,
                                 MaxFail - fails - Failed(okTable, okEntry)) :
       \E r \in {open_subroutine(St, id, prop, okTable, okEntry, okHt, okBuckets)} :
         LET inserts == reached /\ okEntry
             used == Failed(okTable, okEntry) + Failed(okHt, okBuckets)
         IN /\ SetSt(r.st)
            /\ fails' = fails + used
            /\ last' = [op |-> "open_subroutine", id |-> id, ret |-> r.ret,
                         nomem |-> ~okEntry]
            /\ pc' = IF r.ret = "exit" THEN "exit" ELSE pc
            /\ in_sub' = (r.ret = "TRUE")
            /\ gdecl' = IF inserts
                        THEN Append(gdecl, [id |-> id, type |-> prop.type])
                        ELSE gdecl
            /\ ldecl' = IF r.ret = "TRUE" THEN <<>> ELSE ldecl
            /\ opened' = IF r.ret = "TRUE"
                         THEN [id |-> id, prop |-> prop, offset |-> curr_offset]
                         ELSE opened
    /\ UNCHANGED htVars
    /\ UNCHANGED scVars

\* close_subroutine(), at the end of the subroutine opened.
CloseSubroutine ==
    /\ pc = "run"
    /\ in_sub
    /\ SetSt(close_subroutine(St))
    /\ in_sub' = FALSE
    /\ last' = [op |-> "close_subroutine"]
    /\ UNCHANGED <<pc, gdecl, ldecl, opened, fails>>
    /\ UNCHANGED htVars
    /\ UNCHANGED scVars

\* release_symbol_table(), at the end of main, no subroutine being open.
ReleaseSymbolTable ==
    /\ pc = "run"
    /\ ~in_sub
    /\ SetSt(release_symbol_table(St))
    /\ pc' = "released"
    /\ last' = [op |-> "release_symbol_table"]
    /\ UNCHANGED <<in_sub, gdecl, ldecl, opened, fails>>
    /\ UNCHANGED htVars
    /\ UNCHANGED scVars

NextSymTab == InsertName \/ OpenSubroutine \/ CloseSubroutine \/ ReleaseSymbolTable

SpecSymTab == InitSymTab /\ [][NextSymTab]_vars

\* ------------------------------------------------------------ observers

\* The places of a table's entries: <<bucket, position in the chain>>.
Slots(h) == UNION {{<<k, i>> : i \in 1..Len(h.table[k])} : k \in DOMAIN h.table}

\* The entries reachable from the buckets, and their number.
Entries(h) == {h.table[s[1]][s[2]] : s \in Slots(h)}

CountEntries(h) == Cardinality(Slots(h))

\* Some entry of the table has a key equal to `key`, wherever it is.
KeyPresent(h, key) == \E e \in Entries(h) : key_strcmp(e.key, key) = 0

\* No two entries of the table have equal keys.
NoDuplicateKeys(h) ==
    \A s1 \in Slots(h), s2 \in Slots(h) :
        s1 # s2 => key_strcmp(h.table[s1[1]][s1[2]].key, h.table[s2[1]][s2[2]].key) # 0

\* ------------------------------------------------- hash table: claims

\* C1: after any sequence of ht_insert calls, every key whose insert returned 0
\* is found by ht_search with the value it was inserted with, and num_entries
\* and the number of entries reachable from the buckets both equal the number
\* of inserts that returned 0.  (An insert of a key that is already there
\* changes nothing, so the runs with pairwise-distinct keys are among these.)
C1_InsertsFoundAndCounted ==
    ht # NULL =>
        /\ \A key \in DOMAIN inserted : ht_search(ht, key) = inserted[key]
        /\ CountEntries(ht) = Cardinality(DOMAIN inserted)
        /\ ht.num_entries = Cardinality(DOMAIN inserted)

\* C2: an ht_insert that counts a new entry and so pushes num_entries / size
\* above the maximum load factor leaves the capacity strictly larger than it
\* was, and every key inserted earlier is still found with its value.
C2_OverloadGrowsCapacity ==
    [][(/\ ht # NULL
        /\ last'.op = "ht_insert"
        /\ last'.ret # HASH_TABLE_KEY_VALUE_PAIR_EXISTS
        /\ LoadExceeded([ht EXCEPT !.num_entries = @ + 1]))
       => /\ ht'.size > ht.size
          /\ \A key \in DOMAIN inserted : ht_search(ht', key) = inserted[key]]_vars

C4_LoadFactorKept ==
    (ht # NULL /\ fails = 0 /\ last.op = "ht_insert" /\ ht.idx < MAX_IDX)
        => ~LoadExceeded(ht)

\* ------------------------------------------------ symbol table: claims

\* The active and the global (first) table of a symbol-table run.
Active == Deref(heap, table)

Global == heap[1]

\* The variables among a scope's declarations, in declaration order.
IsVarDecl(d) == IS_VARIABLE(d.type)

\* The names declared in the global scope.
GlobalNames == {gdecl[i].id : i \in 1..Len(gdecl)}

\* C5: find_name yields the entry of the active table if the name has one;
\* otherwise, if a saved table exists and holds the name as a callable, that
\* entry; otherwise nothing.  So inside a subroutine a global variable is not
\* resolved and a global callable is.
C5_FindNameVisibility ==
    pc = "run" =>
        \A id \in Names :
            IF \E e \in Entries(Active) : e.key = id
            THEN \E e \in Entries(Active) : e.key = id /\ find_name(St, id) = e.value
            ELSE IF /\ saved_table # NULL
                    /\ \E e \in Entries(Deref(heap, saved_table)) :
                           e.key = id /\ IS_CALLABLE_TYPE(e.value.type)
            THEN \E e \in Entries(Deref(heap, saved_table)) :
                     e.key = id /\ find_name(St, id) = e.value
            ELSE find_name(St, id) = NULL

\* C5, its case: inside a subroutine the global table holds a variable, which
\* is not resolved, and a callable, which is.
C5_Witness ==
    /\ pc = "run"
    /\ in_sub
    /\ \E e \in Entries(Global) :
           ~IS_CALLABLE_TYPE(e.value.type) /\ find_name(St, e.key) = NULL
    /\ \E e \in Entries(Global) :
           IS_CALLABLE_TYPE(e.value.type) /\ find_name(St, e.key) = e.value
    /\ Entries(Active) # {}

\* C6: right after close_subroutine, no name declared only in the scope just
\* closed is resolved, and the subroutine's name is resolved, in the global
\* table that is active again, to the properties it was opened with.
C6_CloseDropsLocals ==
    (pc = "run" /\ last.op = "close_subroutine") =>
        /\ \A i \in 1..Len(ldecl) :
               ldecl[i].id \notin GlobalNames => find_name(St, ldecl[i].id) = NULL
        /\ table = <<1>>
        /\ ht_search(Active, opened.id) = [opened.prop EXCEPT !.offset = opened.offset]
        /\ find_name(St, opened.id) = [opened.prop EXCEPT !.offset = opened.offset]

\* C6, its case: a scope with a declaration of its own has just been closed.
C6_Witness ==
    /\ pc = "run"
    /\ last.op = "close_subroutine"
    /\ \E i \in 1..Len(ldecl) : ldecl[i].id \notin GlobalNames

\* C7: the Nth variable declared in a scope has offset base + N - 1, the base
\* being 1 for the global scope and 0 for a subroutine scope (callables are
\* not counted).  Stated for the runs in which no allocation has failed.
C7_OffsetsInOrder ==
    (pc = "run" /\ fails = 0) =>
        /\ LET gvars == SelectSeq(gdecl, IsVarDecl)
           IN \A n \in 1..Len(gvars) :
                  ht_search(Global, gvars[n].id).offset = 1 + n - 1
        /\ in_sub =>
             LET lvars == SelectSeq(ldecl, IsVarDecl)
             IN \A n \in 1..Len(lvars) :
                    ht_search(Active, lvars[n].id).offset = 0 + n - 1

C9_OpenSubroutineFrame ==
    [][last'.op = "open_subroutine" =>
         /\ find_name(St, last'.id) # NULL =>
              /\ last'.ret = "FALSE"
              /\ UNCHANGED <<heap, table, saved_table, curr_offset>>
         /\ last'.ret = "FALSE" => UNCHANGED <<table, saved_table, curr_offset>>
         /\ last'.ret = "TRUE" =>
              /\ saved_table' = table
              /\ table'[1] \notin 1..Len(heap)
              /\ Deref(heap', table') = ht_init(SymTabLoadFactor, TRUE, TRUE)
              /\ CountEntries(Deref(heap', table')) = 0
              /\ curr_offset' = 0]_vars

\* C9, its case: open_subroutine has just been refused for a name that
\* resolves, after variables were declared (so the counter is not at its start).
C9_Witness ==
    /\ pc = "run"
    /\ last.op = "open_subroutine"
    /\ last.ret = "FALSE"
    /\ ~last.nomem
    /\ curr_offset > 1
    /\ ~in_sub

\* C10: once release_symbol_table has run with no subroutine open, the global
\* table is released.  Stated for the runs in which no allocation has failed.
C10_GlobalTableReleased ==
    (pc = "released" /\ fails = 0) => Global = FREED

\* ------------------------------------------- hash table: further claims

\* C11: an allocation failure in ht_init makes it return NULL, and an ht_insert
\* whose rehash could not allocate the new bucket array (the index advanced,
\* the capacity did not) does not return 0.
C11_AllocationFailureReported ==
    [][/\ (last'.op = "ht_init" /\ fails' > fails) => ht' = NULL
       /\ (/\ ht # NULL
           /\ last'.op = "ht_insert"
           /\ ht'.idx > ht.idx
           /\ ht'.size = ht.size) => last'.ret # 0]_vars

\* C12: ht_search with a NULL table or a NULL key returns NULL, calls neither
\* the hash nor the compare function, and leaves the table as it is.
C12_NullSearchIsNoOp ==
    [][(last'.op = "ht_search" /\ (ht = NULL \/ last'.key = NULL)) =>
         /\ last'.ret = NULL
         /\ last'.hash_calls = 0
         /\ last'.cmp_calls = 0
         /\ ht' = ht]_vars

\* C12, its case: a table with entries has been searched for a NULL key.
C12_Witness ==
    /\ last.op = "ht_search"
    /\ last.key = NULL
    /\ ht # NULL
    /\ CountEntries(ht) >= 2

\* ------------------------------------------------------ scanner: claims

\* The tokens the lexemes of an input stand for, then end-of-file.
ExpectedTokens(in) ==
    [i \in 1..Len(in.lexemes) |-> Lexemes[in.lexemes[i]].token]
        \o <<[type |-> "TOK_EOF"]>>

\* C13: on a text of valid lexemes no get_token call ends in an error, and the
\* tokens returned so far are, one for one and in order, those the lexemes
\* stand for (type and payload), end-of-file coming after the last.
C13_OneTokenPerLexeme ==
    input # NULL =>
        /\ lexerr = NULL
        /\ Len(tokens) <= Len(ExpectedTokens(input))
        /\ tokens = SubSeq(ExpectedTokens(input), 1, Len(tokens))

\* C13, its case: "let x = 3 + 4" has been scanned to the end-of-file token.
C13_Witness ==
    /\ input = LetExample
    /\ src_file.text = <<108, 101, 116, 32, 120, 32, 61, 32, 51, 32, 43, 32, 52>>
    /\ Len(tokens) = 7
    /\ tokens[7].type = "TOK_EOF"

\* The index of the '}' that matches a '{' at text[i - 1], the braces from
\* text[i] on being counted from depth 1; 0 if the text ends before it.
RECURSIVE MatchingBrace(_, _, _)
MatchingBrace(text, i, depth) ==
    IF i > Len(text) THEN 0
    ELSE IF text[i] = 123 THEN MatchingBrace(text, i + 1, depth + 1)
    ELSE IF text[i] = 125
    THEN IF depth = 1 THEN i ELSE MatchingBrace(text, i + 1, depth - 1)
    ELSE MatchingBrace(text, i + 1, depth)

\* The indices of the '{' still open at the end of the text, outermost first.
RECURSIVE OpenBraces(_, _, _)
OpenBraces(text, i, open) ==
    IF i > Len(text) THEN open
    ELSE IF text[i] = 123 THEN OpenBraces(text, i + 1, Append(open, i))
    ELSE IF text[i] = 125 /\ open # <<>>
    THEN OpenBraces(text, i + 1, SubSeq(open, 1, Len(open) - 1))
    ELSE OpenBraces(text, i + 1, open)

\* The line and column of text[i]: lines and columns count from 1, a newline
\* being the last character of its line.
PositionOf(text, i) ==
    LET newlines == {j \in 1..(i - 1) : text[j] = 10}
        lineStart == IF newlines = {} THEN 0
                     ELSE CHOOSE j \in newlines : \A k \in newlines : k <= j
    IN [line |-> 1 + Cardinality(newlines), col |-> i - lineStart]

\* C14: a text that starts with a comment whose '{' is matched, whatever the
\* nesting inside, is scanned as the text after the matching '}' is: the same
\* tokens and the same end, so nothing inside the comment is a token.
C14_NestedCommentSkipped ==
    (src_file # NULL /\ src_file.text # <<>> /\ src_file.text[1] = 123
       /\ MatchingBrace(src_file.text, 2, 1) > 0) =>
        [tokens |-> tokens, err |-> lexerr]
            = Scan(Suffix(src_file.text, MatchingBrace(src_file.text, 2, 1) + 1),
                   Calls)

\* C14, its case: a comment with a comment nested in it, then an identifier,
\* which is the first token returned.
C14_Witness ==
    /\ src_file # NULL
    /\ Len(src_file.text) >= 4
    /\ src_file.text[1] = 123
    /\ src_file.text[2] = 123
    /\ MatchingBrace(src_file.text, 2, 1) = 4
    /\ tokens # <<>>
    /\ tokens[1] = [type |-> "TOK_ID", lexeme |-> <<97>>]

\* C15 as claimed, the comment being the whole brace comment the scanner was
\* skipping: the error 'comment not closed' carries the line and column of
\* the outermost '{' left open.
C15_ReportedAtOutermostBrace ==
    (src_file # NULL /\ lexerr = [message |-> "comment not closed"]) =>
        position = PositionOf(src_file.text,
                              Head(OpenBraces(src_file.text, 1, <<>>)))

\* C15 as amended: the error 'comment not closed' carries the line and column
\* of the innermost '{' left open, the one of the comment in which the input
\* ended; and a scan that returns end-of-file has left no '{' open.
C15_ReportedAtInnermostBrace ==
    src_file # NULL =>
        LET open == OpenBraces(src_file.text, 1, <<>>)
        IN /\ lexerr = [message |-> "comment not closed"] =>
                 /\ open # <<>>
                 /\ position = PositionOf(src_file.text, open[Len(open)])
           /\ (lexerr = NULL /\ ScanDone) => open = <<>>

\* C15, its case: the input ended in a comment nested in another, on the
\* second line.
C15_Witness ==
    /\ src_file # NULL
    /\ lexerr = [message |-> "comment not closed"]
    /\ Len(OpenBraces(src_file.text, 1, <<>>)) = 2
    /\ position.line = 2

\* A literal without its leading zeros.
RECURSIVE StripZeros(_)
StripZeros(digits) ==
    IF digits # <<>> /\ Head(digits) = 48 THEN StripZeros(Tail(digits)) ELSE digits

\* Two digit strings of one length: the first is at most the second.
RECURSIVE DigitsLeq(_, _)
DigitsLeq(a, b) ==
    IF a = <<>> THEN TRUE
    ELSE IF Head(a) # Head(b) THEN Head(a) < Head(b)
    ELSE DigitsLeq(Tail(a), Tail(b))

\* "2147483647", INT_MAX in decimal.
IntMaxDigits == IntMaxHead \o <<52, 55>>

\* The value of a literal is at most INT_MAX, decided on its digits.
AtMostIntMax(digits) ==
    LET d == StripZeros(digits)
    IN Len(d) < Len(IntMaxDigits)
           \/ (Len(d) = Len(IntMaxDigits) /\ DigitsLeq(d, IntMaxDigits))

\* The decimal value of a literal that is at most INT_MAX.
RECURSIVE DecimalValue(_)
DecimalValue(digits) ==
    IF digits = <<>> THEN 0
    ELSE (digits[1] - 48) * 10 ^ (Len(digits) - 1) + DecimalValue(Tail(digits))

\* C16: the first get_token on a decimal literal returns a number token with
\* the literal's decimal value if that value is at most INT_MAX, and ends in
\* the error 'number too large' otherwise; no addition of the accumulation
\* has gone past INT_MAX.
C16_NumberWithinIntMax ==
    (/\ src_file # NULL
     /\ src_file.text # <<>>
     /\ \A i \in 1..Len(src_file.text) : isdigit(src_file.text[i])
     /\ Calls >= 1) =>
        /\ IF AtMostIntMax(src_file.text)
           THEN /\ lexerr = NULL
                /\ tokens[1] = [type |-> "TOK_NUM",
                                 value |-> DecimalValue(StripZeros(src_file.text))]
           ELSE /\ lexerr = [message |-> "number too large"]
                /\ tokens = <<>>
        /\ ~last.wrapped
        /\ DecimalValue(IntMaxDigits) = INT_MAX

\* C16, its case: the literal 2147483647 has been returned with value INT_MAX.
C16_Witness ==
    /\ src_file # NULL
    /\ src_file.text = IntMaxDigits
    /\ tokens # <<>>
    /\ tokens[1] = [type |-> "TOK_NUM", value |-> INT_MAX]

\* The index of the closing quote in the text after an opening quote, if it is
\* reached before the end with only printable characters and only the escapes
\* \n, \t, \" and \\ on the way; 0 otherwise.
RECURSIVE ClosingQuote(_, _)
ClosingQuote(body, i) ==
    IF i > Len(body) THEN 0
    ELSE IF body[i] = 34 THEN i
    ELSE IF body[i] \notin 32..126 THEN 0
    ELSE IF body[i] = 92
    THEN IF i + 1 <= Len(body) /\ body[i + 1] \in {110, 116, 34, 92}
         THEN ClosingQuote(body, i + 2)
         ELSE 0
    ELSE ClosingQuote(body, i + 1)

\* C17: the first get_token on a text that opens a string returns a string
\* token, holding the characters up to the closing quote, exactly when the
\* closing quote is reached before the end over printable characters and
\* valid escapes; otherwise the call ends in a fatal error.
C17_StringTokenOnlyWhenWellFormed ==
    (/\ src_file # NULL
     /\ src_file.text # <<>>
     /\ src_file.text[1] = 34
     /\ Calls >= 1) =>
        LET body == Tail(src_file.text)
            close == ClosingQuote(body, 1)
        IN IF close > 0
           THEN /\ tokens # <<>>
                /\ tokens[1] = [type |-> "TOK_STR",
                                 string |-> SubSeq(body, 1, close - 1)]
           ELSE /\ tokens = <<>>
                /\ lexerr \in {[message |-> "string not closed"],
                                [message |-> "non-printable character in string"],
                                [message |-> "illegal escape code in string"]}

\* C17, its case: a string with an escaped quote in it has been returned.
C17_Witness ==
    /\ src_file # NULL
    /\ tokens # <<>>
    /\ tokens[1] = [type |-> "TOK_STR", string |-> <<92, 34, 97>>]

\* The character that completes a two-character operator begun by > < / -.
Completing(first) ==
    CASE first = 62 -> 61
      [] first = 60 -> 61
      [] first = 47 -> 61
      [] first = 45 -> 62

\* The token of the two-character operator begun by `first`.
TypeOfBoth(first) ==
    CASE first = 62 -> "TOK_GE"
      [] first = 60 -> "TOK_LE"
      [] first = 47 -> "TOK_NE"
      [] first = 45 -> "TOK_ARROW"
      [] first = 38 -> "TOK_AND"
      [] first = 124 -> "TOK_OR"
      [] first = 46 -> "TOK_DOTDOT"

\* The token of > < / - by itself.
TypeAlone(first) ==
    CASE first = 62 -> "TOK_GT"
      [] first = 60 -> "TOK_LT"
      [] first = 47 -> "TOK_DIV"
      [] first = 45 -> "TOK_MINUS"

\* A scan that returns a token of the type and goes on as `rest` does.
TokenThen(type, rest) ==
    [tokens |-> <<[type |-> type]>> \o rest.tokens, err |-> rest.err]

\* C18: a text that begins with > < / - yields the two-character operator and
\* then the scan of the text after it when the second character completes
\* one, and otherwise the one-character token and then the scan of the text
\* from the second character on; a text that begins with & | . yields the
\* doubled operator and then the scan of the text after it, and a fatal
\* illegal-character error when the character is not doubled.
C18_TwoCharacterOperators ==
    (src_file # NULL /\ src_file.text # <<>> /\ Calls >= 1) =>
        LET text == src_file.text
            first == text[1]
            second == IF Len(text) >= 2 THEN text[2] ELSE EOF
            scan == [tokens |-> tokens, err |-> lexerr]
        IN /\ first \in {62, 60, 47, 45} =>
                IF second = Completing(first)
                THEN scan = TokenThen(TypeOfBoth(first),
                                      Scan(Suffix(text, 3), Calls - 1))
                ELSE scan = TokenThen(TypeAlone(first),
                                      Scan(Suffix(text, 2), Calls - 1))
           /\ first \in {38, 124, 46} =>
                IF second = first
                THEN scan = TokenThen(TypeOfBoth(first),
                                      Scan(Suffix(text, 3), Calls - 1))
                ELSE scan = [tokens |-> <<>>,
                             err |-> [message |-> "illegal character"]]

\* C18, its case: in "-<=" the minus is a token by itself and the character
\* after it starts the next token.
C18_Witness ==
    /\ src_file # NULL
    /\ src_file.text = <<45, 60, 61>>
    /\ Len(tokens) = 2
    /\ tokens[1] = [type |-> "TOK_MINUS"]
    /\ tokens[2] = [type |-> "TOK_LE"]

\* The reserved-word table is in ascending strcmp order.
ReservedSorted ==
    \A i, j \in DOMAIN reserved :
        i < j => strcmp(reserved[i].word, reserved[j].word) < 0

\* The text is one word, and the first get_token on it has been made.
ScansOneWord ==
    /\ src_file # NULL
    /\ src_file.text # <<>>
    /\ isalpha(src_file.text[1]) \/ src_file.text[1] = 95
    /\ \A i \in DOMAIN src_file.text : IsWordChar(src_file.text[i])
    /\ Calls >= 1

\* C19: the reserved-word table is sorted in strcmp order, and a scanned word
\* (of at most MAX_ID_LEN characters) comes back as a keyword token with an
\* empty lexeme exactly when it is one of the reserved words, the token type
\* being the one the table gives for it; any other word comes back as
\* TOK_ID with the word as its lexeme.
C19_KeywordIffReserved ==
    /\ ReservedSorted
    /\ (ScansOneWord /\ Len(src_file.text) <= MAX_ID_LEN) =>
          /\ tokens # <<>>
          /\ IF src_file.text \in ReservedWords
             THEN \E k \in DOMAIN reserved :
                    /\ reserved[k].word = src_file.text
                    /\ tokens[1] = [type |-> reserved[k].type, lexeme |-> <<>>]
             ELSE tokens[1] = [type |-> "TOK_ID", lexeme |-> src_file.text]

\* C19, its case: the last word of the table has been scanned and came back
\* as its keyword.
C19_Witness ==
    /\ src_file # NULL
    /\ src_file.text = <<119, 104, 105, 108, 101>>
    /\ tokens # <<>>
    /\ tokens[1] = [type |-> "TOK_WHILE", lexeme |-> <<>>]

\* C20: a word of at most MAX_ID_LEN characters is accepted, the buffer
\* holding all of it and the terminator, and an identifier token carrying
\* all of it; a longer word ends in the fatal error 'identifier too long'
\* with no token returned; and no call writes more than MAX_ID_LEN + 1
\* elements of the lexeme buffer.
C20_IdentifierLength ==
    /\ last.op = "get_token" => last.written <= MAX_ID_LEN + 1
    /\ ScansOneWord =>
          IF Len(src_file.text) <= MAX_ID_LEN
          THEN /\ tokens # <<>>
               /\ tokens[1].type = "TOK_ID" => tokens[1].lexeme = src_file.text
               /\ Calls = 1 => /\ lexerr = NULL
                               /\ last.written = Len(src_file.text) + 1
          ELSE /\ tokens = <<>>
               /\ lexerr = [message |-> "identifier too long"]

\* C20, its case: an identifier of exactly MAX_ID_LEN characters has been
\* accepted whole.
C20_Witness ==
    /\ src_file # NULL
    /\ Len(src_file.text) = MAX_ID_LEN
    /\ tokens # <<>>
    /\ tokens[1] = [type |-> "TOK_ID", lexeme |-> src_file.text]
    /\ last.written = MAX_ID_LEN + 1

\* C21: on every next_char that reads a character, the line number goes up by
\* one and the column becomes 1 if the character read before it was a
\* newline, and otherwise the line stays and the column goes up by one.
C21_LineAndColumn ==
    [][(last'.op = "next_char" /\ ch' # EOF) =>
          IF ch = 10
          THEN /\ position'.line = position.line + 1
               /\ column_number' = 1
          ELSE /\ position'.line = position.line
               /\ column_number' = column_number + 1]_vars

\* C21, its case: the character after a newline has been read.
C21_Witness ==
    /\ src_file # NULL
    /\ last.op = "next_char"
    /\ src_file.pos = 4
    /\ src_file.text[2] = 10
    /\ ch = 97
    /\ position.line = 2
    /\ column_number = 1

\* ------------------------------------------------------- parser: claims

\* main has returned from parse_program, or the process ended in it.
Translated == cp # NULL /\ cp.at \in {"parsed", "done", "failed"}

\* The one error of the run is the type error of chktypes.
TypeErrorReported(expected, found) ==
    /\ cp.at = "failed"
    /\ cp.errors = 1
    /\ cp.message = [message |-> "incompatible types", expected |-> expected,
                     found |-> found]

\* C22: a boolean target given an integer sum, an integer target given a
\* boolean, and an addition of an integer and a boolean each end the
\* compilation with a type error naming the expected and the found type.
C22_MismatchIsTypeError ==
    Translated =>
        /\ input = BoolGetsSum => TypeErrorReported(TYPE_BOOLEAN, TYPE_INTEGER)
        /\ input = IntGetsBool => TypeErrorReported(TYPE_INTEGER, TYPE_BOOLEAN)
        /\ input = SumOfIntAndBool => TypeErrorReported(TYPE_INTEGER, TYPE_BOOLEAN)

\* The run ended with one reported error.
ErrorReported ==
    /\ cp.at = "failed"
    /\ cp.errors = 1
    /\ cp.signal = NULL

\* C23: a program that uses a name find_name does not resolve (as the target
\* of an assignment, in input, in a factor) or declares a name a second time
\* (in a variable definition, as a subroutine) ends with one reported error.
C23_UnresolvedOrRedeclaredReported ==
    (Translated /\ input \in {UndeclaredTarget, UndeclaredInput, UndeclaredFactor,
                              Redeclared, RedeclaredInList, SubroutineRedeclared})
        => ErrorReported

\* The subroutines the programs define, in order: the name, the parameters'
\* names and types, and the type the name is to have.
DefinedSubroutines(in) ==
    CASE in = FunctionOfTwo ->
           <<[name |-> <<102>>, ids |-> <<(<<97>>), (<<98>>)>>,
              types |-> <<TYPE_INTEGER, TYPE_BOOLEAN>>,
              type |-> TYPE_CALLABLE + TYPE_INTEGER]>>
      [] in = ProcedureOfOne ->
           <<[name |-> <<102>>, ids |-> <<(<<97>>)>>, types |-> <<TYPE_INTEGER>>,
              type |-> TYPE_CALLABLE]>>
      [] in = RecursiveFunction ->
           <<[name |-> <<102>>, ids |-> <<(<<97>>)>>, types |-> <<TYPE_INTEGER>>,
              type |-> TYPE_CALLABLE + TYPE_INTEGER]>>
      [] in = TwoProcedures ->
           <<[name |-> <<102>>, ids |-> <<(<<97>>)>>, types |-> <<TYPE_INTEGER>>,
              type |-> TYPE_CALLABLE],
             [name |-> <<103>>, ids |-> <<(<<98>>)>>, types |-> <<TYPE_BOOLEAN>>,
              type |-> TYPE_CALLABLE]>>
      [] OTHER -> <<>>

\* In the symbol table st the subroutine resolves to a callable with its
\* parameter types, and its parameters are declared at offsets 0, 1, ...
HasSignature(st, sub) ==
    /\ LET p == find_name(st, sub.name)
       IN /\ p # NULL
          /\ p.type = sub.type
          /\ p.nparams = Len(sub.types)
          /\ p.params = sub.types
    /\ \A i \in 1..Len(sub.ids) :
          LET q == find_name(st, sub.ids[i])
          IN /\ q # NULL
             /\ q.type = sub.types[i]
             /\ q.offset = i - 1

\* C24: the translation of each subroutine body starts, and starts with the
\* subroutine's name resolving to a callable of the declared parameter types
\* (a procedure without '->', a function of the return type with it) and with
\* the parameters declared in the local scope at offsets 0..k-1.
C24_BodyStartsWithSignature ==
    (Translated /\ DefinedSubroutines(input) # <<>>) =>
        /\ Len(cp.bodies) = Len(DefinedSubroutines(input))
        /\ \A i \in 1..Len(cp.bodies) :
              HasSignature(cp.bodies[i].st, DefinedSubroutines(input)[i])

\* The postfix translation of a tree: the code of the operands, then the
\* instruction of the operator; x is the variable at offset 1.
RECURSIVE Postfix(_)
Postfix(e) ==
    IF e.k = "leaf"
    THEN (IF e.lexeme = "x"
          THEN <<[gen |-> "gen_2", op |-> "JVM_ILOAD", arg |-> 1]>>
          ELSE <<[gen |-> "gen_2", op |-> "JVM_LDC", arg |-> 1]>>)
    ELSE IF e.k = "unary"
    THEN Postfix(e.a)
         \o (IF e.op = "-"
             THEN <<[gen |-> "gen_1", op |-> "JVM_INEG"]>>
             ELSE <<[gen |-> "gen_2", op |-> "JVM_LDC", arg |-> 1],
                    [gen |-> "gen_1", op |-> "JVM_IXOR"]>>)
    ELSE Postfix(e.l) \o Postfix(e.r)
         \o <<CASE e.op = "<" -> [gen |-> "gen_cmp", op |-> "JVM_IF_ICMPLT"]
                [] e.op = "+" -> [gen |-> "gen_1", op |-> "JVM_IADD"]
                [] e.op = "-" -> [gen |-> "gen_1", op |-> "JVM_ISUB"]
                [] e.op = "*" -> [gen |-> "gen_1", op |-> "JVM_IMUL"]
                [] e.op = "and" -> [gen |-> "gen_1", op |-> "JVM_IAND"]>>

\* The calls made between init_subroutine_codegen of main and the gen_print
\* of the output statement.
ExpressionCode(code) == SubSeq(code, 3, Len(code) - 3)

\* C25: the code emitted for the expression of `output(e)` is the postfix
\* translation of e, and no error is reported.
C25_PostfixTranslation ==
    (Translated /\ "ast" \in DOMAIN input) =>
        /\ cp.errors = 0
        /\ ~cp.halted
        /\ Len(cp.code) >= 5
        /\ cp.code[Len(cp.code) - 2].gen = "gen_print"
        /\ ExpressionCode(cp.code) = Postfix(input.ast)

\* C25, its case: - x - 1 has been translated, the leading minus negating the
\* first term only and the subtraction coming last.
C25_Witness ==
    /\ cp # NULL
    /\ cp.at = "done"
    /\ "ast" \in DOMAIN input
    /\ input.ast = Binary("-", Unary("-", Leaf("x")), Leaf("1"))
    /\ ExpressionCode(cp.code) =
          <<[gen |-> "gen_2", op |-> "JVM_ILOAD", arg |-> 1],
            [gen |-> "gen_1", op |-> "JVM_INEG"],
            [gen |-> "gen_2", op |-> "JVM_LDC", arg |-> 1],
            [gen |-> "gen_1", op |-> "JVM_ISUB"]>>

\* The effect of the emitted calls on a machine with an operand stack, local
\* slots and an output, for the instructions of straight-line integer code;
\* the other calls leave the machine as it is.
RECURSIVE Interpret(_, _)
Interpret(code, m) ==
    IF code = <<>> THEN m
    ELSE LET c == Head(code)
             n == Len(m.stack)
             next ==
                 CASE c.gen = "gen_2" /\ c.op = "JVM_LDC" ->
                        [m EXCEPT !.stack = Append(@, c.arg)]
                   [] c.gen = "gen_2" /\ c.op = "JVM_ILOAD" ->
                        [m EXCEPT !.stack = Append(@, m.locals[c.arg])]
                   [] c.gen = "gen_2" /\ c.op = "JVM_ISTORE" /\ n >= 1 ->
                        [m EXCEPT !.stack = SubSeq(@, 1, n - 1),
                                  !.locals[c.arg] = m.stack[n]]
                   [] c.gen = "gen_1" /\ c.op = "JVM_IADD" /\ n >= 2 ->
                        [m EXCEPT !.stack = Append(SubSeq(@, 1, n - 2),
                                                   m.stack[n - 1] + m.stack[n])]
                   [] c.gen = "gen_1" /\ c.op = "JVM_ISUB" /\ n >= 2 ->
                        [m EXCEPT !.stack = Append(SubSeq(@, 1, n - 2),
                                                   m.stack[n - 1] - m.stack[n])]
                   [] c.gen = "gen_print" /\ n >= 1 ->
                        [m EXCEPT !.stack = SubSeq(@, 1, n - 1),
                                  !.out = Append(@, [number |-> m.stack[n]])]
                   [] c.gen = "gen_print_string" ->
                        [m EXCEPT !.out = Append(@, [string |-> c.string])]
                   [] OTHER -> m
         IN Interpret(Tail(code), next)

\* The machine before the first instruction.
MachineStarts == [stack |-> <<>>, locals |-> [i \in 0..3 |-> 0], out |-> <<>>]

\* C26: the example program, x being declared an integer in it, is translated
\* without an error into: push 1, push 2, add, store into the slot of x, print
\* the string x=, load x, print it as an integer; run on a machine, that code
\* leaves 3 in x and prints x= and 3.
C26_ExampleTranslated ==
    (Translated /\ input = ExampleDeclared) =>
        /\ cp.errors = 0
        /\ ~cp.halted
        /\ find_name(cp.st, <<120>>) # NULL
        /\ find_name(cp.st, <<120>>).offset = 1
        /\ Len(cp.code) = 11
        /\ SubSeq(cp.code, 3, 9) =
              <<[gen |-> "gen_2", op |-> "JVM_LDC", arg |-> 1],
                [gen |-> "gen_2", op |-> "JVM_LDC", arg |-> 2],
                [gen |-> "gen_1", op |-> "JVM_IADD"],
                [gen |-> "gen_2", op |-> "JVM_ISTORE", arg |-> 1],
                [gen |-> "gen_print_string", string |-> <<120, 61>>],
                [gen |-> "gen_2", op |-> "JVM_ILOAD", arg |-> 1],
                [gen |-> "gen_print", type |-> TYPE_INTEGER]>>
        /\ Interpret(cp.code, MachineStarts).locals[1] = 3
        /\ Interpret(cp.code, MachineStarts).out =
              <<[string |-> <<120, 61>>], [number |-> 3]>>

\* C26, its case: the example program has been translated to the end of main.
C26_Witness ==
    /\ cp # NULL
    /\ cp.at = "done"
    /\ input = ExampleDeclared
    /\ cp.fetched = 22
    /\ cp.code[Len(cp.code)] = [gen |-> "close_subroutine_codegen", width |-> 2]

\* C27: at most one error is reported in a run; no token is fetched and no
\* code-generation call is made after it; the run is then in its failed state,
\* from which no step is taken.
C27_OneErrorThenNothing ==
    /\ [](cp # NULL =>
            /\ cp.errors <= 1
            /\ cp.late = 0
            /\ cp.errors = 1 => (cp.halted /\ cp.at = "failed"))
    /\ [][cp.errors = 0 /\ cp.at # "failed"]_vars

\* C27, its case: an error was reported in the middle of a statement, after
\* tokens were fetched and code was emitted.
C27_Witness ==
    /\ cp # NULL
    /\ cp.at = "failed"
    /\ cp.errors = 1
    /\ cp.message = [message |-> "expected", expected |-> "TOK_RPAREN",
                     found |-> "TOK_SEMICOLON"]
    /\ cp.fetched = 12
    /\ cp.code[Len(cp.code)].gen = "gen_print"

\* How often ht_free was given the table t.
TimesFreed(t) == Cardinality({i \in 1..Len(cp.frees) : cp.frees[i] = t})

\* How often each part of a payload handed to the symbol table has been
\* released: ht_free gives every key of the table to free_key and every value
\* to free_value, which frees the properties record and not its params array;
\* a payload the table did not take is in no table.
ReleasesOf(h) ==
    LET n == IF h.accepted THEN TimesFreed(h.table) ELSE 0
    IN [id |-> n, prop |-> n, params |-> 0]

\* C28: after the teardown at the end of main, every identifier string,
\* properties record and parameter-type array handed to the symbol table has
\* been released exactly once.
C28_PayloadsReleasedOnce ==
    (cp # NULL /\ cp.at = "done") =>
        \A i \in 1..Len(cp.handed) :
            /\ ReleasesOf(cp.handed[i]).id = 1
            /\ ReleasesOf(cp.handed[i]).prop = 1
            /\ cp.handed[i].prop.params # NULL => ReleasesOf(cp.handed[i]).params = 1

\* C29: a call whose identifier is a variable or is not declared, as a
\* statement or in a factor, ends the compilation with one reported error.
C29_CallOfNonCallableReported ==
    (Translated /\ input \in {VariableCalled, UndeclaredCalled, VariableCalledInFactor})
        => ErrorReported

\* The run went through with no error and allocated an array of `atype`.
Allocated(atype) ==
    /\ cp.errors = 0
    /\ ~cp.halted
    /\ \E i \in 1..Len(cp.code) : cp.code[i] = [gen |-> "gen_newarray", atype |-> atype]

\* C30: an array allocation assigned to an integer variable ends the
\* compilation with an error; assigned to an int array it emits the integer
\* allocation, assigned to a bool array the boolean one.
C30_AllocationFollowsTarget ==
    Translated =>
        /\ input = ScalarGetsArray => ErrorReported
        /\ input = IntArrayAllocated => Allocated("T_INT")
        /\ input = BoolArrayAllocated => Allocated("T_BOOLEAN")

\* The instruction op is among the calls made.
Emits(op) ==
    \E i \in 1..Len(cp.code) : "op" \in DOMAIN cp.code[i] /\ cp.code[i].op = op

\* The run went through with no error.
Compiled == cp.at \in {"parsed", "done"} /\ cp.errors = 0

\* C31: an assignment whose target is followed by an index is translated to
\* an element store (IASTORE) and to no plain store; an assignment whose
\* target has no index is translated to a plain store (ISTORE) and to no
\* element store.
C31_ElementStoreIffIndexed ==
    Translated =>
        /\ input \in {ArrayElements, ScalarIndexed} =>
              (Compiled /\ Emits("JVM_IASTORE") /\ ~Emits("JVM_ISTORE"))
        /\ input \in {IntGetsInt, ArrayUnindexed} =>
              (Compiled /\ Emits("JVM_ISTORE") /\ ~Emits("JVM_IASTORE"))

\* The one error of the run says what was found.
FoundReported(toktype) ==
    /\ ErrorReported
    /\ "found" \in DOMAIN cp.message
    /\ cp.message.found = toktype

\* C32: a statement that starts with '=' ends the compilation with the error
\* 'expected statement, found =', and a parameter whose type is an identifier
\* ends it with an error that names the identifier token found.
C32_NonStarterReported ==
    Translated =>
        /\ input = StatementStartsWithEq =>
              (ErrorReported /\ cp.message = [message |-> "expected statement",
                                               found |-> "TOK_EQ"])
        /\ input = UntypedParameter => FoundReported("TOK_ID")

\* The type of the tokens for which get_token fills in the payload member.
TokenCarrying(member) ==
    CASE member = "lexeme" -> "TOK_ID"
      [] member = "value" -> "TOK_NUM"
      [] member = "string" -> "TOK_STR"

\* C33: every payload member the translator reads is read while the token it
\* belongs to is the current one, that is, before the next get_token call.
C33_PayloadReadBeforeNextToken ==
    cp # NULL =>
        \A i \in 1..Len(cp.reads) : cp.reads[i].of = TokenCarrying(cp.reads[i].member)

\* The table init_symbol_table creates, which is the global one.
GlobalTable == init_symbol_table.table

\* C34: every subroutine body is translated in a scope of its own, opened on
\* top of the global table; what close_subroutine releases is such a scope and
\* never the global table; and when main has been translated the active table
\* is the global table, still allocated.
C34_ScopesOpenAndClose ==
    (cp # NULL /\ cp.at \in {"parsed", "failed"}) =>
        /\ \A i \in 1..Len(cp.bodies) :
              /\ cp.bodies[i].st.saved_table = GlobalTable
              /\ cp.bodies[i].st.table # GlobalTable
        /\ \A i \in 1..Len(cp.frees) : cp.frees[i] # GlobalTable
        /\ cp.at = "parsed" =>
              /\ cp.st.table = GlobalTable
              /\ Deref(cp.st.heap, cp.st.table) # FREED

\* ------------------------------------ hash table: allocation and capacity

\* C35: an ht_insert that returns 1, the entry not having been allocated,
\* leaves the keys and values of the table as they were, and the entry count
\* equal to the number of entries reachable from the buckets.
C35_FailedInsertLeavesTable ==
    [][(ht # NULL /\ last'.op = "ht_insert" /\ last'.ret = 1) =>
          /\ Entries(ht') = Entries(ht)
          /\ ht'.num_entries = CountEntries(ht')]_vars

\* C36: the index of every table reached is a position of delta, and the
\* capacity is the prime that position stands for, 2^idx - delta[idx].
C36_IndexMatchesCapacity ==
    ht # NULL =>
        /\ ht.idx \in 0..(MAX_IDX - 1)
        /\ ht.size = (2 ^ ht.idx) - delta[ht.idx + 1]

\* ---------------------------------------------- scanner: string buffer

\* C37: while a string literal is scanned, every character stored in the
\* string buffer, the second character of an escape and the terminator
\* included, is stored inside the buffer as it is allocated at that time.
C37_StoresInsideBuffer == last.op = "get_token" => last.outside = 0

\* ------------------------------------------------ parser: statement labels

\* The generator calls that bind `label`.
Bindings(label) ==
    {i \in 1..Len(cp.code) : cp.code[i] = [gen |-> "gen_label", label |-> label]}

LabelsOf(stmt) == {stmt.labels[i] : i \in 1..Len(stmt.labels)}

\* The generator calls made for statement `stmt` itself: those made during
\* its call of parse_if or parse_while and not during the call for a
\* statement inside it.
CallsOf(stmt) ==
    {i \in (stmt.from + 1)..stmt.to :
        \A k \in 1..Len(cp.stmts) :
            LET inner == cp.stmts[k]
            IN (inner # stmt /\ stmt.from <= inner.from /\ inner.to <= stmt.to)
               => i \notin (inner.from + 1)..inner.to}

\* C38: for every if and while statement translated, each of its labels is
\* bound exactly once, by a call made for the statement; each of its branch
\* instructions goes to one of its own labels; and the end label of an if
\* (the first it takes) is bound by the last generator call of the statement,
\* after the code of all its branches.
C38_LabelsBoundOnce ==
    cp # NULL =>
        \A k \in 1..Len(cp.stmts) :
            LET stmt == cp.stmts[k]
            IN /\ \A label \in LabelsOf(stmt) :
                    /\ Cardinality(Bindings(label)) = 1
                    /\ Bindings(label) \subseteq CallsOf(stmt)
               /\ \A i \in CallsOf(stmt) :
                    cp.code[i].gen = "gen_2_label" => cp.code[i].label \in LabelsOf(stmt)
               /\ \A j \in 1..Len(cp.stmts) :
                    j # k => LabelsOf(cp.stmts[j]) \cap LabelsOf(stmt) = {}
               /\ stmt.kind = "if" => Bindings(stmt.labels[1]) = {stmt.to}

\* A translation that ended without an error, of a while statement holding
\* an if statement with an elif branch, which holds a while statement.
C38_NestedStatementsTranslated ==
    /\ cp # NULL /\ cp.at \in {"parsed", "done"} /\ cp.errors = 0
    /\ cp.open = <<>>
    /\ \E outer, middle, inner \in 1..Len(cp.stmts) :
          /\ cp.stmts[outer].kind = "while" /\ cp.stmts[middle].kind = "if"
          /\ cp.stmts[inner].kind = "while"
          /\ Len(cp.stmts[middle].labels) = 3
          /\ cp.stmts[outer].from < cp.stmts[middle].from
          /\ cp.stmts[middle].from < cp.stmts[inner].from
          /\ cp.stmts[inner].to < cp.stmts[middle].to
          /\ cp.stmts[middle].to < cp.stmts[outer].to

\* -------------------------------------------------- player: the processes

\* Worker processes (size - 1) of a run.
MaxWorkers == 3

\* Candidate cells (cells of the board holding 3) of a round.
MaxCandidates == 3

\* Rounds of move generation with candidates in a run.
MaxRounds == 2

NO_MORE_TASKS == -5

TERMINATE == -123

\* The variables a run of the player leaves alone.
playerIdle == <<ht, inserted, heap, table, saved_table, curr_offset, pc, in_sub,
                gdecl, ldecl, opened, last, fails, src_file, ch, column_number,
                position, token, tokens, lexerr, input, cp>>

\* mpi holds
\*   size      the number of processes: rank 0 is the master, the others work
\*   eager     whether MPI_Bcast returns at the root before the other
\*             processes have called it (MPI leaves this to the library);
\*             MPI_Send of one or three ints is taken to be buffered
\*   master    where rank 0 is: "start", "loop" (in receive_message),
\*             "bcast_board", "send", "collect" (in MPI_Recv), "left" (after
\*             the while loop) or "finalize" (MPI_Finalize called)
\*   stones    whether the board holds candidate cells (search[0] is not -1)
\*   count, tot_tasks, results_received, tracking
\*             the variables of run_master; a task is the index into search
\*   rounds    the rounds of move generation with candidates so far
\*   worker    where each worker is: "bcast_colour", "bcast_terminate",
\*             "bcast_board", "recv" (in MPI_Recv) or "finalize"
\*   bcasts    per worker, the broadcasts of the root it has not yet taken,
\*             each the buffer sent and its first int (0 for a colour and
\*             for a cell of the board)
\*   tasks     per worker, the messages of the master it has not yet received
\*   results   per worker, the number of its results the master has not yet
\*             received
\*   assigned  the tasks sent in the round, each with the worker it went to
Ranks(m) == 1..(m.size - 1)

\* main of rank 0 and of the workers after MPI_Init, with size - 1 workers.
PlayerStarts(workers, eager) ==
    [size |-> workers + 1,
     eager |-> eager,
     master |-> "start",
     stones |-> FALSE,
     count |-> 0,
     tot_tasks |-> 0,
     results_received |-> 0,
     tracking |-> [i \in 1..workers |-> -1],
     rounds |-> 0,
     worker |-> [i \in 1..workers |-> "bcast_colour"],
     bcasts |-> [i \in 1..workers |-> <<>>],
     tasks |-> [i \in 1..workers |-> <<>>],
     results |-> [i \in 1..workers |-> 0],
     assigned |-> <<>>]

\* MPI_Bcast at the root, of the buffer `buf` whose first int is `first`.
Bcast(m, buf, first) ==
    [m EXCEPT !.bcasts = [i \in Ranks(m) |->
                             Append(m.bcasts[i], [buf |-> buf, first |-> first])]]

\* The MPI_Bcast the root called last has returned.
Joined(m) == m.eager \/ \A i \in Ranks(m) : m.bcasts[i] = <<>>

\* MPI_Send of the master to worker i, send[0] being first.
Send(m, i, first) == [m EXCEPT !.tasks[i] = Append(@, first)]

\* The task search[count] goes to worker i.
SendTask(m, i) ==
    [Send(m, i, m.count) EXCEPT
        !.tracking[i] = m.count,
        !.assigned = Append(@, [task |-> m.count, worker |-> i]),
        !.count = @ - 1]

\* The for loop of run_master that hands out the first tasks, from worker i.
RECURSIVE SendLoop(_, _)
SendLoop(m, i) ==
    IF i >= m.size \/ m.count < 0 THEN m
    ELSE SendLoop(SendTask(m, i), i + 1)

MasterAt(place) == mpi # NULL /\ mpi.master = place /\ Joined(mpi)

InitPlayer ==
    /\ \E workers \in 1..MaxWorkers, eager \in BOOLEAN :
          mpi = PlayerStarts(workers, eager)
    /\ cp = NULL
    /\ input = NULL
    /\ src_file = NULL
    /\ ch = 0
    /\ column_number = 0
    /\ position = [line |-> 0, col |-> 0]
    /\ token = NULL
    /\ tokens = <<>>
    /\ lexerr = NULL
    /\ ht = NULL
    /\ inserted = <<>>
    /\ last = [op |-> "none"]
    /\ fails = 0
    /\ heap = <<>>
    /\ table = NULL
    /\ saved_table = NULL
    /\ curr_offset = 0
    /\ pc = "run"
    /\ in_sub = FALSE
    /\ gdecl = <<>>
    /\ ldecl = <<>>
    /\ opened = NULL

\* run_master up to its while loop: running is taken to be set.
MasterStarts ==
    /\ MasterAt("start")
    /\ mpi' = [Bcast(mpi, "my_colour", 0) EXCEPT !.master = "loop"]
    /\ UNCHANGED playerIdle

\* GENERATE_MOVE on a board without candidates: the centre is played.
GenerateFirstMove ==
    /\ MasterAt("loop")
    /\ ~mpi.stones
    /\ mpi' = [mpi EXCEPT !.stones = TRUE, !.count = -1, !.tot_tasks = 0]
    /\ UNCHANGED playerIdle

\* GENERATE_MOVE on a board with candidates, up to the first MPI_Bcast.
GenerateMove ==
    /\ MasterAt("loop")
    /\ mpi.stones
    /\ mpi.rounds < MaxRounds
    /\ \E candidates \in 1..MaxCandidates :
          mpi' = [Bcast(mpi, "NO_MORE_TASKS", NO_MORE_TASKS) EXCEPT
                     !.count = candidates - 1,
                     !.tot_tasks = candidates,
                     !.rounds = @ + 1,
                     !.assigned = <<>>,
                     !.master = "bcast_board"]
    /\ UNCHANGED playerIdle

\* MPI_Bcast of the board.
BcastBoard ==
    /\ MasterAt("bcast_board")
    /\ mpi' = [Bcast(mpi, "board", 0) EXCEPT !.master = "send"]
    /\ UNCHANGED playerIdle

\* The first tasks are handed out.
SendFirstTasks ==
    /\ MasterAt("send")
    /\ mpi' = [SendLoop(mpi, 1) EXCEPT !.results_received = 0, !.master = "collect"]
    /\ UNCHANGED playerIdle

\* One pass of the while loop that receives the results: the result of
\* worker_rank is received and the worker gets the next task or -5.  After
\* the last pass the move is sent to the referee.
CollectResult ==
    /\ MasterAt("collect")
    /\ \E worker_rank \in Ranks(mpi) :
          /\ mpi.results[worker_rank] > 0
          /\ mpi' = [(IF mpi.count >= 0
                      THEN SendTask(mpi, worker_rank)
                      ELSE Send(mpi, worker_rank, -5))
                     EXCEPT !.results[worker_rank] = @ - 1,
                            !.results_received = @ + 1,
                            !.master = IF mpi.results_received + 1 < mpi.tot_tasks
                                       THEN "collect" ELSE "loop"]
    /\ UNCHANGED playerIdle

PlayMove ==
    /\ MasterAt("loop")
    /\ mpi' = [mpi EXCEPT !.stones = TRUE]
    /\ UNCHANGED playerIdle

GameTermination ==
    /\ MasterAt("loop")
    /\ mpi' = [Bcast(mpi, "TERMINATE", TERMINATE) EXCEPT !.master = "left"]
    /\ UNCHANGED playerIdle

MatchReset ==
    /\ MasterAt("loop")
    /\ mpi' = [mpi EXCEPT !.stones = FALSE]
    /\ UNCHANGED playerIdle

UnknownMessage ==
    /\ MasterAt("loop")
    /\ mpi' = [mpi EXCEPT !.master = "left"]
    /\ UNCHANGED playerIdle

\* run_master returns and main calls MPI_Finalize.
MasterFinalizes ==
    /\ MasterAt("left")
    /\ mpi' = [mpi EXCEPT !.master = "finalize"]
    /\ UNCHANGED playerIdle

WorkerAt(i, place) ==
    mpi # NULL /\ i \in Ranks(mpi) /\ mpi.worker[i] = place

\* MPI_Bcast of my_colour in run_worker.
WorkerColour(i) ==
    /\ WorkerAt(i, "bcast_colour")
    /\ mpi.bcasts[i] # <<>>
    /\ mpi' = [mpi EXCEPT !.bcasts[i] = Tail(@), !.worker[i] = "bcast_terminate"]
    /\ UNCHANGED playerIdle

\* MPI_Bcast of terminate: the worker leaves its loop on -123 and calls
\* MPI_Finalize.
WorkerTerminate(i) ==
    /\ WorkerAt(i, "bcast_terminate")
    /\ mpi.bcasts[i] # <<>>
    /\ mpi' = [mpi EXCEPT !.bcasts[i] = Tail(@),
                          !.worker[i] = IF Head(mpi.bcasts[i]).first = TERMINATE
                                        THEN "finalize" ELSE "bcast_board"]
    /\ UNCHANGED playerIdle

\* MPI_Bcast of the board.
WorkerBoard(i) ==
    /\ WorkerAt(i, "bcast_board")
    /\ mpi.bcasts[i] # <<>>
    /\ mpi' = [mpi EXCEPT !.bcasts[i] = Tail(@), !.worker[i] = "recv"]
    /\ UNCHANGED playerIdle

\* One pass of the task loop: on -5 the worker leaves the loop, on a task it
\* sends the result.
WorkerTask(i) ==
    /\ WorkerAt(i, "recv")
    /\ mpi.tasks[i] # <<>>
    /\ mpi' = IF Head(mpi.tasks[i]) = -5
              THEN [mpi EXCEPT !.tasks[i] = Tail(@), !.worker[i] = "bcast_terminate"]
              ELSE [mpi EXCEPT !.tasks[i] = Tail(@), !.results[i] = @ + 1]
    /\ UNCHANGED playerIdle

MasterStep ==
    \/ MasterStarts
    \/ GenerateFirstMove
    \/ GenerateMove
    \/ BcastBoard
    \/ SendFirstTasks
    \/ CollectResult
    \/ PlayMove
    \/ GameTermination
    \/ MatchReset
    \/ UnknownMessage
    \/ MasterFinalizes

WorkerStep(i) ==
    \/ WorkerColour(i)
    \/ WorkerTerminate(i)
    \/ WorkerBoard(i)
    \/ WorkerTask(i)

NextPlayer == MasterStep \/ \E i \in 1..MaxWorkers : WorkerStep(i)

SpecPlayer == InitPlayer /\ [][NextPlayer]_vars

\* Every process runs on as long as it is not blocked.
SpecPlayerFair ==
    /\ SpecPlayer
    /\ WF_vars(MasterStep)
    /\ \A i \in 1..MaxWorkers : WF_vars(WorkerStep(i))

\* ----------------------------------------------------------- player claims

\* The stop messages on their way to worker i.
StopsPending(i) ==
    Cardinality({k \in 1..Len(mpi.tasks[i]) : mpi.tasks[i][k] = -5})

\* The task loops worker i is in or is about to enter.
TaskLoops(i) ==
    Cardinality({k \in 1..Len(mpi.bcasts[i]) : mpi.bcasts[i][k].buf = "board"})
    + (IF mpi.worker[i] = "recv" THEN 1 ELSE 0)

\* C39: when a round of move generation with candidates is over (the master
\* is back in receive_message and the last round had tasks), each
\* candidate has gone to exactly one worker, the master has received as many
\* results as there were candidates, and every worker has left its task loop
\* or has the stop message on its way.
C39_RoundHandsOutAndStops ==
    (mpi # NULL /\ mpi.master = "loop" /\ mpi.tot_tasks > 0) =>
        /\ \A task \in 0..(mpi.tot_tasks - 1) :
              Cardinality({k \in 1..Len(mpi.assigned) : mpi.assigned[k].task = task}) = 1
        /\ mpi.results_received = mpi.tot_tasks
        /\ \A i \in Ranks(mpi) : StopsPending(i) = TaskLoops(i)

\* C40: once the master has left its main loop, every process reaches
\* MPI_Finalize.
C40_AllReachFinalize ==
    (mpi # NULL /\ mpi.master = "left")
        ~> (mpi.master = "finalize" /\ \A i \in Ranks(mpi) : mpi.worker[i] = "finalize")

====
